---- MODULE Spec2Model ----
(***************************************************************************)
(* Task Bench core (src/core/core.cc): the closed-form graph model, the    *)
(* configuration parser and validator (App::App, App::check) and the       *)
(* execute-point primitive (TaskGraph::execute_point).                     *)
(*                                                                         *)
(* Buffers are sequences of 8-byte words; a 16-byte record is two words.   *)
(* Interval lists are sequences of pairs <<first, last>> (inclusive).      *)
(***************************************************************************)
EXTENDS Integers, Sequences, FiniteSets, TLC

VARIABLES argv, div0_traps, hash_seed, fill, garbage, rolls, phase, status,
          graph, graphs, output, executed, call, report, scratch,
          has_executed_graph, ran, shift_wraps, relations, verdict, mpi,
          ompss, parsec

\* The state of the backends beyond the output buffers.
backend_vars == <<scratch>>

\* The state of a build with DEBUG_CORE.
debug_vars == <<has_executed_graph, ran, shift_wraps>>

\* The lists handed to the validation of App::check and its verdict; the
\* ranks of the MPI backend; the tiles and tasks of the OmpSs backend; the
\* scratch memory of the cores of the PaRSEC backend.
extra_vars == <<relations, verdict, mpi, ompss, parsec>>

vars == <<argv, div0_traps, hash_seed, fill, garbage, rolls, phase, status,
          graph, graphs, output, executed, call, report, backend_vars, debug_vars, extra_vars>>

(***************************************************************************)
(* Bounds of the model.                                                    *)
(***************************************************************************)
MaxSteps == 3
MaxWidth == 4
MaxRadix == 4
MaxPeriod == 3
MaxSeed == 1
ExecMaxSteps == 2
ExecMaxWidth == 3
ExecMaxRadix == 3
ExecMaxPeriod == 2
ScratchMaxSteps == 2
ScratchMaxWidth == 3
MaskMaxSkipped == 1
MirrorMaxLen == 2
MpiMaxSteps == 3
MpiMaxWidth == 3
MpiMaxRanks == 3
OmpssMaxSteps == 3
OmpssMaxWidth == 3
OmpssMaxFields == 4
ParsecMaxCores == 2
ParsecMaxWidth == 2
ParsecMaxAnd == 1
BytesMaxSteps == 2
BytesMaxWidth == 2
BytesMaxIter == 3
BytesMaxSample == 3
ShapeMaxSteps == 4
ShapeMaxWidth == 6
ShapeMaxRadix == 4
ShapeMaxPeriod == 1
ConfigMaxSteps == 2
ConfigMaxWidth == 3
ConfigMaxAnd == 2
ReportMaxSteps == 3
ReportMaxWidth == 4
ReportMaxNodes == 5

(***************************************************************************)
(* Program constants.                                                      *)
(***************************************************************************)
PairBytes == 16
WordBytes == 8
MAGIC_VALUE == 1548385419
HashRange == 4
DefaultSteps == 4
DefaultWidth == 4
DefaultRadix == 3
DefaultPeriod == 3
NRolls == 10000
MaskBits == 64
IntBits == 32
NB_LOCAL_MEMORY == 8
DefaultSamples == 16

\* size_t has 64 bits; the integers of the model checker have 32, so the
\* model keeps the low 30 bits of a size_t.  Every size of the model other
\* than a converted negative number is far below.
SizeTModulus == 2 ^ 30

\* A flag is a sequence: empty when the flag is absent, else its one value.
Unset == << >>
Flag(values) == {<<v>> : v \in values}

DependenceTypes ==
  {"trivial", "no_comm", "stencil_1d", "stencil_1d_periodic", "dom", "tree",
   "fft", "all_to_all", "nearest", "spread", "random_nearest", "random_spread"}

(***************************************************************************)
(* C arithmetic.                                                           *)
(***************************************************************************)
Min(a, b) == IF a < b THEN a ELSE b
Max(a, b) == IF a > b THEN a ELSE b

\* C's '/' and '%' truncate toward zero (divisor non-zero).
CDiv(a, b) ==
  IF (a >= 0) = (b > 0) THEN (IF a >= 0 THEN a ELSE -a) \div (IF b > 0 THEN b ELSE -b)
  ELSE -((IF a >= 0 THEN a ELSE -a) \div (IF b > 0 THEN b ELSE -b))
CMod(a, b) == a - b * CDiv(a, b)

Pow2(n) == 2 ^ n

\* (long)ceil(log2(w)) for w >= 1: the least k with 2^k >= w.
CeilLog2(w) == CHOOSE k \in 0..w : Pow2(k) >= w /\ \A j \in 0..(k-1) : Pow2(j) < w

\* a long converted to size_t (unsigned)
ToSizeT(v) == IF v < 0 THEN v + SizeTModulus ELSE v

(***************************************************************************)
(* needs_period, core.cc:39-41                                             *)
(***************************************************************************)
needs_period(dtype) == dtype = "spread" \/ dtype = "random_nearest"

(***************************************************************************)
(* offset_at_timestep / width_at_timestep, core.cc:171-225                 *)
(***************************************************************************)
offset_at_timestep_no_shift(g, timestep) ==
  IF timestep < 0 THEN 0
  ELSE IF g.dependence = "dom"
       THEN Max(0, timestep - g.timesteps)
       ELSE 0

offset_at_timestep(g, timestep) ==
  IF timestep < 0 THEN 0
  ELSE IF g.dependence = "dom"
       THEN Max(0, timestep + g.max_width - g.timesteps)
       ELSE 0

width_at_timestep_growing(g, timestep) ==
  IF timestep < 0 THEN 0
  ELSE CASE g.dependence = "dom" -> Min(g.max_width, timestep + 1)
         [] g.dependence = "tree" ->
              Min(g.max_width, Pow2(Min(timestep, 62)))
         [] OTHER -> g.max_width

width_at_timestep_full_tree(g, timestep) ==
  IF timestep < 0 THEN 0
  ELSE CASE g.dependence = "dom" ->
              Min(g.max_width, Min(timestep + 1, g.timesteps - timestep))
         [] OTHER -> g.max_width

width_at_timestep(g, timestep) ==
  IF timestep < 0 THEN 0
  ELSE CASE g.dependence = "dom" ->
              Min(g.max_width, Min(timestep + 1, g.timesteps - timestep))
         [] g.dependence = "tree" ->
              Min(g.max_width, Pow2(Min(timestep, 62)))
         [] OTHER -> g.max_width

(***************************************************************************)
(* max_dependence_sets / dependence_set_at_timestep, core.cc:228-281       *)
(***************************************************************************)
max_dependence_sets(g) ==
  CASE g.dependence = "fft" -> CeilLog2(g.max_width)
    [] g.dependence \in {"spread", "random_nearest", "random_spread"} -> g.period
    [] OTHER -> 1

\* The patterns whose dependence set is computed with '% max_dependence_sets()'.
dset_uses_modulo(g) ==
  g.dependence \in {"fft", "spread", "random_nearest", "random_spread"}

\* The dividend of that '%'.
dset_dividend(g, timestep) ==
  IF g.dependence = "fft" THEN timestep + max_dependence_sets(g) - 1 ELSE timestep

\* '% 0' is undefined behaviour: the build either traps (SIGFPE, x86 idiv)
\* or yields the dividend (a - (a/0)*0 with a non-trapping divide).
dset_divides_by_zero(g) == dset_uses_modulo(g) /\ max_dependence_sets(g) = 0

\* The value returned when the call returns (see dset_divides_by_zero).
dependence_set_at_timestep(g, timestep) ==
  IF ~dset_uses_modulo(g) THEN 0
  ELSE IF max_dependence_sets(g) = 0 THEN dset_dividend(g, timestep)
       ELSE CMod(dset_dividend(g, timestep), max_dependence_sets(g))

(***************************************************************************)
(* random_uniform (core_random.h): a fixed hash of the 5-tuple             *)
(* (graph_index, radix, dset, a, b) to [0,1), here to 0..HashRange-1.      *)
(* hash_seed selects one hash of a family; the hash is not symmetric in    *)
(* its last two arguments.                                                 *)
(***************************************************************************)
random_uniform(seed, key) ==
  (seed + key[1] + key[2] + 2 * key[3] + 3 * key[4] + key[5] * key[5] + key[4] * key[5])
    % HashRange

(***************************************************************************)
(* Interval lists.                                                         *)
(***************************************************************************)
\* The points of one inclusive interval, in increasing order.
IntervalPoints(iv) ==
  IF iv[1] > iv[2] THEN << >> ELSE [k \in 1..(iv[2] - iv[1] + 1) |-> iv[1] + k - 1]

\* The points of an interval list in enumeration order (for span, for dep).
RECURSIVE Materialize(_)
Materialize(deps) ==
  IF deps = << >> THEN << >>
  ELSE IntervalPoints(Head(deps)) \o Materialize(Tail(deps))

SeqToSet(s) == {s[k] : k \in 1..Len(s)}

NoDuplicates(s) == \A a, b \in 1..Len(s) : a # b => s[a] # s[b]

\* The run-coalescing loop of the random_nearest arms: include is a function
\* on first..last_i; a run of included points becomes one interval.
RECURSIVE CoalesceRuns(_, _, _, _, _)
CoalesceRuns(include, i, last_i, run_start, deps) ==
  IF i > last_i
  THEN (IF run_start >= 0 THEN Append(deps, <<run_start, i - 1>>) ELSE deps)
  ELSE IF include[i]
       THEN CoalesceRuns(include, i + 1, last_i,
                         (IF run_start < 0 THEN i ELSE run_start), deps)
       ELSE CoalesceRuns(include, i + 1, last_i, -1,
                         (IF run_start >= 0 THEN Append(deps, <<run_start, i - 1>>)
                          ELSE deps))

(***************************************************************************)
(* TaskGraph::reverse_dependencies, core.cc:293-401, one arm each.         *)
(***************************************************************************)
rdeps_stencil_1d(g, point) ==
  << <<Max(0, point - 1), Min(point + 1, g.max_width - 1)>> >>

rdeps_stencil_1d_periodic(g, point) ==
  << <<Max(0, point - 1), Min(point + 1, g.max_width - 1)>> >>
  \o (IF point - 1 < 0 THEN << <<g.max_width - 1, g.max_width - 1>> >> ELSE << >>)
  \o (IF point + 1 >= g.max_width THEN << <<0, 0>> >> ELSE << >>)

rdeps_dom(g, point) == << <<point, Min(g.max_width - 1, point + 1)>> >>

rdeps_tree(g, point) ==
  LET child1 == point * 2
      child2 == point * 2 + 1
  IN IF child1 < g.max_width /\ child2 < g.max_width THEN << <<child1, child2>> >>
     ELSE IF child1 < g.max_width THEN << <<child1, child1>> >>
     ELSE << >>

rdeps_fft(g, dset, point) ==
  LET d1 == point - Pow2(dset)
      d2 == point + Pow2(dset)
  IN (IF d1 >= 0 THEN << <<d1, d1>> >> ELSE << >>)
     \o << <<point, point>> >>
     \o (IF d2 < g.max_width THEN << <<d2, d2>> >> ELSE << >>)

rdeps_nearest_as_forward(g, point) ==
  IF g.radix > 0
  THEN << <<Max(0, point - g.radix \div 2),
            Min(point + CDiv(g.radix - 1, 2), g.max_width - 1)>> >>
  ELSE << >>

rdeps_nearest(g, point) ==
  IF g.radix > 0
  THEN << <<Max(0, point - CDiv(g.radix - 1, 2)),
            Min(point + g.radix \div 2, g.max_width - 1)>> >>
  ELSE << >>

rdeps_spread(g, dset, point) ==
  [k \in 1..g.radix |->
     LET i == k - 1
         d == CMod(point - (i * g.max_width) \div g.radix - (IF i > 0 THEN dset ELSE 0),
                   g.max_width)
         dep == IF d < 0 THEN d + g.max_width ELSE d
     IN <<dep, dep>>]

rdeps_random_nearest(g, dset, point, seed) ==
  LET first == Max(0, point - CDiv(g.radix - 1, 2))
      last_i == Min(point + g.radix \div 2, g.max_width - 1)
      include == [i \in first..last_i |->
                    random_uniform(seed, <<g.graph_index, g.radix, dset, point, i>>)
                      < g.fraction_connected
                    \/ (g.radix > 0 /\ i = point)]
  IN CoalesceRuns(include, first, last_i, -1, << >>)

\* The default arm (assert(false && "unexpected dependence type")) is taken
\* by random_spread; dependencies_defined tells it apart.
dependencies_defined(g) == g.dependence # "random_spread"

reverse_dependencies(g, dset, point, seed) ==
  CASE g.dependence = "trivial" -> << >>
    [] g.dependence = "no_comm" -> << <<point, point>> >>
    [] g.dependence = "stencil_1d" -> rdeps_stencil_1d(g, point)
    [] g.dependence = "stencil_1d_periodic" -> rdeps_stencil_1d_periodic(g, point)
    [] g.dependence = "dom" -> rdeps_dom(g, point)
    [] g.dependence = "tree" -> rdeps_tree(g, point)
    [] g.dependence = "fft" -> rdeps_fft(g, dset, point)
    [] g.dependence = "all_to_all" -> << <<0, g.max_width - 1>> >>
    [] g.dependence = "nearest" -> rdeps_nearest(g, point)
    [] g.dependence = "spread" -> rdeps_spread(g, dset, point)
    [] g.dependence = "random_nearest" -> rdeps_random_nearest(g, dset, point, seed)
    [] OTHER -> << >>

(***************************************************************************)
(* TaskGraph::dependencies, core.cc:442-542, one arm each.                 *)
(***************************************************************************)
deps_stencil_1d(g, point) ==
  << <<Max(0, point - 1), Min(point + 1, g.max_width - 1)>> >>

deps_stencil_1d_periodic(g, point) ==
  << <<Max(0, point - 1), Min(point + 1, g.max_width - 1)>> >>
  \o (IF point - 1 < 0 THEN << <<g.max_width - 1, g.max_width - 1>> >> ELSE << >>)
  \o (IF point + 1 >= g.max_width THEN << <<0, 0>> >> ELSE << >>)

deps_dom(g, point) == << <<Max(0, point - 1), point>> >>

deps_tree(g, point) == LET parent == point \div 2 IN << <<parent, parent>> >>

deps_fft(g, dset, point) ==
  LET d1 == point - Pow2(dset)
      d2 == point + Pow2(dset)
  IN (IF d1 >= 0 THEN << <<d1, d1>> >> ELSE << >>)
     \o << <<point, point>> >>
     \o (IF d2 < g.max_width THEN << <<d2, d2>> >> ELSE << >>)

deps_nearest(g, point) ==
  IF g.radix > 0
  THEN << <<Max(0, point - g.radix \div 2),
            Min(point + CDiv(g.radix - 1, 2), g.max_width - 1)>> >>
  ELSE << >>

deps_spread_floor_first(g, dset, point) ==
  [k \in 1..g.radix |->
     LET i == k - 1
         dep == CMod(point + i * (g.max_width \div g.radix) + (IF i > 0 THEN dset ELSE 0),
                     g.max_width)
     IN <<dep, dep>>]

deps_spread(g, dset, point) ==
  [k \in 1..g.radix |->
     LET i == k - 1
         dep == CMod(point + (i * g.max_width) \div g.radix + (IF i > 0 THEN dset ELSE 0),
                     g.max_width)
     IN <<dep, dep>>]

deps_random_nearest(g, dset, point, seed) ==
  LET first == Max(0, point - g.radix \div 2)
      last_i == Min(point + CDiv(g.radix - 1, 2), g.max_width - 1)
      include == [i \in first..last_i |->
                    random_uniform(seed, <<g.graph_index, g.radix, dset, i, point>>)
                      < g.fraction_connected
                    \/ (g.radix > 0 /\ i = point)]
  IN CoalesceRuns(include, first, last_i, -1, << >>)

dependencies(g, dset, point, seed) ==
  CASE g.dependence = "trivial" -> << >>
    [] g.dependence = "no_comm" -> << <<point, point>> >>
    [] g.dependence = "stencil_1d" -> deps_stencil_1d(g, point)
    [] g.dependence = "stencil_1d_periodic" -> deps_stencil_1d_periodic(g, point)
    [] g.dependence = "dom" -> deps_dom(g, point)
    [] g.dependence = "tree" -> deps_tree(g, point)
    [] g.dependence = "fft" -> deps_fft(g, dset, point)
    [] g.dependence = "all_to_all" -> << <<0, g.max_width - 1>> >>
    [] g.dependence = "nearest" -> deps_nearest(g, point)
    [] g.dependence = "spread" -> deps_spread(g, dset, point)
    [] g.dependence = "random_nearest" -> deps_random_nearest(g, dset, point, seed)
    [] OTHER -> << >>

(***************************************************************************)
(* num_reverse_dependencies / num_dependencies, core.cc:403-430, 544-571:  *)
(* the capacity the callers allocate for the interval list.                *)
(***************************************************************************)
num_reverse_dependencies(g) ==
  CASE g.dependence = "trivial" -> 0
    [] g.dependence \in {"no_comm", "stencil_1d", "dom", "tree", "all_to_all"} -> 1
    [] g.dependence = "stencil_1d_periodic" -> (IF g.max_width > 1 THEN 2 ELSE 3)
    [] g.dependence = "fft" -> 3
    [] g.dependence = "nearest" -> (IF g.radix > 0 THEN 1 ELSE 0)
    [] g.dependence \in {"spread", "random_nearest"} -> g.radix
    [] OTHER -> 0

num_dependencies(g) ==
  CASE g.dependence = "trivial" -> 0
    [] g.dependence \in {"no_comm", "stencil_1d", "dom", "tree", "all_to_all"} -> 1
    [] g.dependence = "stencil_1d_periodic" -> (IF g.max_width > 1 THEN 2 ELSE 3)
    [] g.dependence = "fft" -> 3
    [] g.dependence = "nearest" -> (IF g.radix > 0 THEN 1 ELSE 0)
    [] g.dependence \in {"spread", "random_nearest"} -> g.radix
    [] OTHER -> 0

(***************************************************************************)
(* default_graph, core.cc:676-699                                          *)
(***************************************************************************)
\* output_bytes_size is a size_t**: default_graph leaves the pointer
\* uninitialised (no table), allocate_bytes' caller points it to a table of
\* timesteps x max_width cells.
Unallocated == [allocated |-> FALSE, cells |-> << >>]

\* The kernel of default_graph, core.cc:688: empty, 0 iterations, 16
\* samples.
default_kernel == [type |-> "empty", iterations |-> 0, samples |-> DefaultSamples]

\* default_graph without its argument: every graph gets the index 0.
default_graph_index_zero(graph_index) ==
  [graph_index |-> 0,
   timesteps |-> DefaultSteps,
   max_width |-> DefaultWidth,
   dependence |-> "trivial",
   radix |-> DefaultRadix,
   period |-> -1,
   fraction_connected |-> HashRange \div 4,
   output_bytes_per_task |-> PairBytes,
   scratch_bytes_per_task |-> 0,
   nb_fields |-> 0,
   output_case |-> 0,
   kernel |-> default_kernel,
   output_bytes_size |-> Unallocated]

default_graph(graph_index) ==
  [graph_index |-> graph_index,
   timesteps |-> DefaultSteps,
   max_width |-> DefaultWidth,
   dependence |-> "trivial",
   radix |-> DefaultRadix,
   period |-> -1,
   fraction_connected |-> HashRange \div 4,
   output_bytes_per_task |-> PairBytes,
   scratch_bytes_per_task |-> 0,
   nb_fields |-> 0,
   output_case |-> 0,
   kernel |-> default_kernel,
   output_bytes_size |-> Unallocated]

(***************************************************************************)
(* App::App, core.cc:799-1139: the flag loop.  argv is a record with one   *)
(* field per flag, Unset when the flag is absent.                          *)
(***************************************************************************)
\* The names of ktype_by_name, core.cc:95-107.
KernelTypes ==
  {"empty", "busy_wait", "memory_bound", "compute_dgemm", "memory_daxpy",
   "compute_bound", "compute_bound2", "io_bound", "load_imbalance",
   "dist_imbalance", "compute_and_mem"}

\* The value of a flag that only some command lines give: a record without
\* the field is a command line without the flag.
flag_of(a, name) == IF name \in DOMAIN a THEN a[name] ELSE Unset

\* A flag whose value the parser rejects with abort().
segment_error(a) ==
  \/ a.steps # Unset /\ a.steps[1] <= 0
  \/ a.width # Unset /\ a.width[1] <= 0
  \/ a.type # Unset /\ a.type[1] \notin DependenceTypes
  \/ a.radix # Unset /\ a.radix[1] < 0
  \/ a.period # Unset /\ a.period[1] < 0
  \/ a.fraction # Unset /\ (a.fraction[1] < 0 \/ a.fraction[1] > HashRange)
  \/ a.output # Unset /\ ToSizeT(a.output[1]) < PairBytes
  \/ a.scratch # Unset /\ a.scratch[1] < 0
  \/ a.case # Unset /\ a.case[1] < 0
  \/ flag_of(a, "field") # Unset /\ flag_of(a, "field")[1] <= 0
  \/ flag_of(a, "kernel") # Unset /\ flag_of(a, "kernel")[1] \notin KernelTypes
  \/ flag_of(a, "iter") # Unset /\ flag_of(a, "iter")[1] < 0
  \/ flag_of(a, "sample") # Unset /\ flag_of(a, "sample")[1] < 0

\* argv.and holds the flags of the graphs that are followed by -and, in
\* order; the other fields are the flags of the last graph, and -nodes.
flag_error(a) ==
  \/ a.nodes # Unset /\ a.nodes[1] <= 0
  \/ \E k \in 1..Len(a.and) : segment_error(a.and[k])
  \/ segment_error(a)

\* The graph number graph_index after its flags, the period default
\* (core.cc:1041-1043, 1109-1111) and the nb_fields default
\* (core.cc:1131-1136); its size table is not allocated yet.
parse_segment(a, graph_index) ==
  LET d == default_graph(graph_index)
      dependence == IF a.type # Unset THEN a.type[1] ELSE d.dependence
      timesteps == IF a.steps # Unset THEN a.steps[1] ELSE d.timesteps
      period0 == IF a.period # Unset THEN a.period[1] ELSE d.period
  IN [graph_index |-> d.graph_index,
      timesteps |-> timesteps,
      max_width |-> IF a.width # Unset THEN a.width[1] ELSE d.max_width,
      dependence |-> dependence,
      radix |-> IF a.radix # Unset THEN a.radix[1] ELSE d.radix,
      period |-> IF period0 < 0
                 THEN (IF needs_period(dependence) THEN DefaultPeriod ELSE 0)
                 ELSE period0,
      fraction_connected |-> IF a.fraction # Unset THEN a.fraction[1]
                             ELSE d.fraction_connected,
      output_bytes_per_task |-> IF a.output # Unset THEN ToSizeT(a.output[1])
                                ELSE d.output_bytes_per_task,
      scratch_bytes_per_task |-> IF a.scratch # Unset THEN a.scratch[1]
                                 ELSE d.scratch_bytes_per_task,
      nb_fields |-> IF flag_of(a, "field") # Unset THEN flag_of(a, "field")[1]
                    ELSE timesteps,
      output_case |-> IF a.case # Unset THEN a.case[1] ELSE d.output_case,
      kernel |->
        [type |-> IF flag_of(a, "kernel") # Unset THEN flag_of(a, "kernel")[1]
                  ELSE d.kernel.type,
         iterations |-> IF flag_of(a, "iter") # Unset THEN flag_of(a, "iter")[1]
                        ELSE d.kernel.iterations,
         samples |-> IF flag_of(a, "sample") # Unset THEN flag_of(a, "sample")[1]
                     ELSE d.kernel.samples],
      output_bytes_size |-> d.output_bytes_size]

\* The last graph of the command line, before core.cc:1113.
parse_graph(a) == parse_segment(a, Len(a.and))

(***************************************************************************)
(* allocate_bytes, core.cc:1394-1472, on the table that App::App allocates *)
(* with new[] (core.cc:1114-1116): a cell that is never written keeps the  *)
(* indeterminate value of the fresh memory (uninit).  hist[i] is the       *)
(* number of the NRolls random draws that fell into [i, i+1): the result   *)
(* of the random engine is an input of the model.  The int and size_t      *)
(* arithmetic is modelled for sizes on which it does not overflow.         *)
(***************************************************************************)
\* int nstars = (output_bytes_per_task - 16) * width_t / 16 (in size_t).
nstars_of(g, width_t) ==
  ((g.output_bytes_per_task - PairBytes) * width_t) \div PairBytes

\* int p[width_t]: filled by the cases 1, 2 and 3 only.
histogram(g, hist, width_t) ==
  [i \in 0..(width_t - 1) |->
     IF g.output_case \in {1, 2, 3} /\ i \in DOMAIN hist THEN hist[i] ELSE 0]

\* The first loop of core.cc:1459-1462: the sizes, indexed from 0.
first_pass(p, nstars, width_t) ==
  [i \in 0..(width_t - 1) |->
     (CDiv(p[i] * nstars, NRolls) + 1) * PairBytes]

RECURSIVE SumTo(_, _)
SumTo(f, n) == IF n < 0 THEN 0 ELSE f[n] + SumTo(f, n - 1)

\* The second loop of core.cc:1463-1467 from index i on: iroll is updated
\* after every cell.
RECURSIVE second_pass(_, _, _, _, _, _)
second_pass(sizes, p, nstars, iroll, i, width_t) ==
  IF i >= width_t THEN [sizes |-> sizes, iroll |-> iroll]
  ELSE LET grown == sizes[i] + CDiv(p[i] * (nstars - iroll), NRolls) * PairBytes
       IN second_pass([sizes EXCEPT ![i] = grown], p, nstars,
                      iroll + (grown - sizes[i]) \div PairBytes,
                      i + 1, width_t)

\* The sizes of the width_t points of one row for output_case > 0.
distributed_row(g, hist, width_t) ==
  LET nstars == nstars_of(g, width_t)
      p == histogram(g, hist, width_t)
      first == first_pass(p, nstars, width_t)
      iroll1 == SumTo([i \in 0..(width_t - 1) |->
                        (first[i] - PairBytes) \div PairBytes],
                      width_t - 1)
      second == second_pass(first, p, nstars, iroll1, 0, width_t)
  IN [second.sizes EXCEPT ![width_t - 1] =
        @ + (nstars - second.iroll) * PairBytes]

allocate_bytes(g, uninit, hist) ==
  [g EXCEPT !.output_bytes_size =
     [allocated |-> TRUE,
      cells |->
        [tp \in (0..(g.timesteps - 1)) \X (0..(g.max_width - 1)) |->
           LET width_t == width_at_timestep(g, tp[1])
               offset_t == offset_at_timestep(g, tp[1])
               i == tp[2] - offset_t
           IN IF ~(0 <= i /\ i < width_t) THEN uninit
              ELSE IF g.output_bytes_per_task = PairBytes THEN PairBytes
              ELSE IF g.output_case = 0 THEN g.output_bytes_per_task
              ELSE IF g.output_case > 0 THEN distributed_row(g, hist, width_t)[i]
              ELSE uninit]]]

\* App::graphs after the constructor: the graphs pushed at -and
\* (core.cc:1039-1046), whose table is never allocated, and the last graph
\* (core.cc:1113-1128).
parse_graphs(a, uninit, hist) ==
  [k \in 1..(Len(a.and) + 1) |->
     IF k <= Len(a.and) THEN parse_segment(a.and[k], k - 1)
     ELSE allocate_bytes(parse_graph(a), uninit, hist)]

(***************************************************************************)
(* App::check, core.cc:1141-1203.  The result is "ok" or the first failure *)
(* in program order.  traps: whether an integer division by zero traps in  *)
(* this build (it is undefined behaviour).                                 *)
(***************************************************************************)
\* The body of the timestep loop, core.cc:1170-1179.
check_timestep(g, t, traps) ==
  LET offset == offset_at_timestep(g, t)
      width == width_at_timestep(g, t)
      dset == dependence_set_at_timestep(g, t)
  IN IF ~(offset >= 0) THEN "assert_offset"
     ELSE IF ~(width >= 0) THEN "assert_width"
     ELSE IF ~(offset + width <= g.max_width) THEN "assert_row"
     ELSE IF dset_divides_by_zero(g) /\ traps THEN "SIGFPE"
     ELSE IF ~(dset >= 0 /\ dset <= max_dependence_sets(g)) THEN "assert_dset"
     ELSE "ok"

\* The first loop over the points, core.cc:1182-1190, on the lists deps[p]:
\* the assertion "No duplicates" fails.
has_duplicates(points, deps) ==
  \E p \in points : ~NoDuplicates(Materialize(deps[p]))

\* The second loop over the points, core.cc:1192-1200, on the lists
\* rdeps[p]: the assertion on materialized_deps[rdp] fails.  A point
\* outside the map has an empty set.
breaks_mirror(points, deps, rdeps) ==
  LET materialized_deps(p) ==
        IF p \in points THEN SeqToSet(Materialize(deps[p])) ELSE {}
  IN \E p \in points :
       \E rdp \in SeqToSet(Materialize(rdeps[p])) : p \notin materialized_deps(rdp)

\* The body of the dependence-set loop, core.cc:1180-1201, as a function of
\* the lists that dependencies and reverse_dependencies return.
check_mirror(points, deps, rdeps) ==
  IF has_duplicates(points, deps) THEN "assert_no_duplicates"
  ELSE IF breaks_mirror(points, deps, rdeps) THEN "assert_mirror"
  ELSE "ok"

\* The body of the dependence-set loop with the calls that produce the
\* lists (core.cc:432-440, 283-291).
check_dset(g, dset, seed) ==
  LET points == 0..(g.max_width - 1)
      deps == [p \in points |-> dependencies(g, dset, p, seed)]
      rdeps == [p \in points |-> reverse_dependencies(g, dset, p, seed)]
  IN IF ~dependencies_defined(g) THEN "assert_dependence_type"
     ELSE IF \E p \in points : Len(deps[p]) > num_dependencies(g)
          THEN "assert_count"
     ELSE IF has_duplicates(points, deps) THEN "assert_no_duplicates"
     ELSE IF \E p \in points : Len(rdeps[p]) > num_reverse_dependencies(g)
          THEN "assert_count"
     ELSE IF breaks_mirror(points, deps, rdeps) THEN "assert_mirror"
     ELSE "ok"

\* The first element of lo..hi whose result is not "ok", or "ok".
FirstFailure(results, lo, hi) ==
  IF \A k \in lo..hi : results[k] = "ok" THEN "ok"
  ELSE results[CHOOSE k \in lo..hi :
                 results[k] # "ok" /\ \A j \in lo..(k - 1) : results[j] = "ok"]

\* core.cc:1163, for radix # 0.
spread_period_bound_off_by_one(g) == CDiv(g.max_width + g.radix, g.radix)
spread_period_bound(g) == CDiv(g.max_width + g.radix - 1, g.radix)

check(g, traps, seed) ==
  IF needs_period(g.dependence) /\ g.period = 0 THEN "error_period_required"
  ELSE IF ~needs_period(g.dependence) /\ g.period # 0 THEN "error_period_unsupported"
  ELSE IF g.radix = 0 /\ traps THEN "SIGFPE"
  ELSE
    LET spread == IF g.radix = 0 THEN 0
                  ELSE spread_period_bound(g)
        by_timestep == [t \in 0..(g.timesteps - 1) |-> check_timestep(g, t, traps)]
        timestep_result == FirstFailure(by_timestep, 0, g.timesteps - 1)
        by_dset == [d \in 0..(max_dependence_sets(g) - 1) |-> check_dset(g, d, seed)]
    IN IF g.dependence = "spread" /\ g.period > spread THEN "error_spread_period"
       ELSE IF timestep_result # "ok" THEN timestep_result
       ELSE FirstFailure(by_dset, 0, max_dependence_sets(g) - 1)

\* App::check's loop over the graphs, core.cc:1143.
check_graphs(gs, traps, seed) ==
  FirstFailure([k \in 1..Len(gs) |-> check(gs[k], traps, seed)], 1, Len(gs))

ConfigErrors ==
  {"flag_error", "error_period_required", "error_period_unsupported",
   "error_spread_period"}

(***************************************************************************)
(* TaskGraph::execute_point, core.cc:575-665.                              *)
(* A buffer is [bytes, words]: its size in bytes and its 8-byte words; the *)
(* i-th 16-byte record (i from 0) is words[2i+1] (first) and words[2i+2]   *)
(* (second).  Assertions are compiled in: a failed assert aborts.          *)
(***************************************************************************)
RecordFirst(words, i) == words[2 * i + 1]
RecordSecond(words, i) == words[2 * i + 2]

\* The dependencies inside the previous row, in the order of the two loops
\* at core.cc:604-606; one input buffer is consumed for each.
required_dependencies(g, timestep, point, seed) ==
  LET last_offset == offset_at_timestep(g, timestep - 1)
      last_width == width_at_timestep(g, timestep - 1)
      dset == dependence_set_at_timestep(g, timestep)
      InLastRow(dep) == last_offset <= dep /\ dep < last_offset + last_width
  IN SelectSeq(Materialize(dependencies(g, dset, point, seed)), InLastRow)

\* The checks of one input buffer, core.cc:607-631.
validate_one_input_first_record(inputs, idx, timestep, dep) ==
  IF ~(idx <= Len(inputs)) THEN "assert_n_inputs"
  ELSE IF ~(inputs[idx].bytes >= PairBytes) THEN "assert_input_bytes"
  ELSE IF RecordFirst(inputs[idx].words, 0) # timestep - 1
            \/ RecordSecond(inputs[idx].words, 0) # dep
       THEN "assert_input_value"
  ELSE "ok"

validate_one_input(inputs, idx, timestep, dep) ==
  IF ~(idx <= Len(inputs)) THEN "assert_n_inputs"
  ELSE IF ~(inputs[idx].bytes >= PairBytes) THEN "assert_input_bytes"
  ELSE IF \E i \in 0..(inputs[idx].bytes \div PairBytes - 1) :
            \/ RecordFirst(inputs[idx].words, i) # timestep - 1
            \/ RecordSecond(inputs[idx].words, i) # dep
       THEN "assert_input_value"
  ELSE "ok"

\* "Validate input", core.cc:597-639.
validate_input(g, timestep, point, inputs, seed) ==
  LET required == required_dependencies(g, timestep, point, seed)
      by_input == [idx \in 1..Len(required) |->
                     validate_one_input(inputs, idx, timestep, required[idx])]
  IN FirstFailure(by_input, 1, Len(required))

\* "Generate output", core.cc:648-653: the words of the output buffer after
\* the loop.
generate_output_first_record(words, output_bytes, timestep, point) ==
  [k \in 1..Len(words) |->
     IF k <= 2 THEN (IF k % 2 = 1 THEN timestep ELSE point) ELSE words[k]]

generate_output_swapped(words, output_bytes, timestep, point) ==
  [k \in 1..Len(words) |->
     IF k <= 2 * (output_bytes \div PairBytes)
     THEN (IF k % 2 = 1 THEN point ELSE timestep)
     ELSE words[k]]

generate_output(words, output_bytes, timestep, point) ==
  [k \in 1..Len(words) |->
     IF k <= 2 * (output_bytes \div PairBytes)
     THEN (IF k % 2 = 1 THEN timestep ELSE point)
     ELSE words[k]]

\* "Validate scratch", core.cc:655-660.  scratch_word is the first word of
\* the scratch buffer.
validate_scratch(g, scratch_word, scratch_bytes) ==
  IF ~(scratch_bytes = g.scratch_bytes_per_task) THEN "assert_scratch_bytes"
  ELSE IF scratch_bytes > 0 /\ scratch_word # MAGIC_VALUE THEN "assert_scratch_magic"
  ELSE "ok"

\* The whole call: its result ("ok" or the first failure) and the words of
\* the output buffer when it returns or aborts.
execute_point(g, timestep, point, out_words, output_bytes, inputs, scratch_word, scratch_bytes, traps, seed) ==
  LET offset == offset_at_timestep(g, timestep)
      width == width_at_timestep(g, timestep)
      unchanged(result) == [result |-> result, words |-> out_words]
      written == generate_output(out_words, output_bytes, timestep, point)
      input_result == validate_input(g, timestep, point, inputs, seed)
  IN IF ~(0 <= timestep /\ timestep < g.timesteps) THEN unchanged("assert_timestep")
     ELSE IF ~(offset <= point /\ point < offset + width) THEN unchanged("assert_point")
     ELSE IF dset_divides_by_zero(g) /\ traps THEN unchanged("SIGFPE")
     ELSE IF ~dependencies_defined(g) THEN unchanged("assert_dependence_type")
     ELSE IF input_result # "ok" THEN unchanged(input_result)
     ELSE IF ~(output_bytes >= PairBytes) THEN unchanged("assert_output_bytes")
     ELSE [result |-> validate_scratch(g, scratch_word, scratch_bytes),
           words |-> written]

InputFailures == {"assert_n_inputs", "assert_input_bytes", "assert_input_value"}

(***************************************************************************)
(* The caller of execute_point: a backend that keeps one output buffer per *)
(* task and runs a row once the previous row is complete                   *)
(* (bulk_synchronous.cc:87-108, 127-219).                                  *)
(***************************************************************************)
\* A buffer of n bytes filled with the word w.
NewBuffer(n, w) == [bytes |-> n, words |-> [k \in 1..(n \div WordBytes) |-> w]]

Row(g, t) == {p \in 0..(g.max_width - 1) :
                offset_at_timestep(g, t) <= p
                  /\ p < offset_at_timestep(g, t) + width_at_timestep(g, t)}

\* The inputs a correct backend passes: the output buffers of the required
\* dependencies, in their order.
FaithfulInputs(g, out, t, p, seed) ==
  LET required == required_dependencies(g, t, p, seed)
  IN [k \in 1..Len(required) |-> out[<<t - 1, required[k]>>]]

\* Input k with its buffer cut to one word (8 bytes).
ShortInput(inputs, k) ==
  [inputs EXCEPT ![k] = [bytes |-> WordBytes, words |-> SubSeq(@.words, 1, 1)]]

\* Input k with word j changed.
CorruptInput(inputs, k, j) ==
  [inputs EXCEPT ![k].words[j] = @ + 1]

\* What a caller may pass instead of the faithful inputs.
InputChoices(faithful) ==
  {faithful}
  \cup (IF faithful = << >> THEN {}
        ELSE {SubSeq(faithful, 1, Len(faithful) - 1),
              Append(faithful, faithful[1])})
  \cup {ShortInput(faithful, k) : k \in 1..Len(faithful)}
  \cup UNION {{CorruptInput(faithful, k, j) : j \in 1..Len(faithful[k].words)}
                : k \in 1..Len(faithful)}

(***************************************************************************)
(* State machine.                                                          *)
(***************************************************************************)
Flags(maxSteps, maxWidth, maxRadix, maxPeriod, outputs) ==
  [steps : Flag(1..maxSteps),
   width : Flag(1..maxWidth),
   type : Flag(DependenceTypes),
   radix : {Unset} \cup Flag(0..maxRadix),
   period : {Unset} \cup Flag(0..maxPeriod),
   fraction : {Unset} \cup Flag({0, HashRange}),
   output : outputs,
   scratch : {Unset},
   case : {Unset},
   nodes : {Unset},
   and : {<< >>}]

NoCall == [made |-> FALSE]

\* The patterns that read radix, and those that take a period.
UsesRadix == {"nearest", "spread", "random_nearest"}
UsesPeriod == {"spread", "random_nearest", "random_spread"}

\* Sequences of at most n elements of S.
SeqUpTo(S, n) == UNION {[1..k -> S] : k \in 0..n}

NoReport == [made |-> FALSE]

\* No draw of the random engine falls into a row.
NoRolls == << >>

\* No scratch buffer is allocated.
NoScratch == [bytes |-> 0, words |-> << >>]

\* The backends have not started.
BackendIdle == scratch = NoScratch

\* The build has no DEBUG_CORE: there is no mask.
NoDebug ==
  /\ has_executed_graph = {}
  /\ ran = {}
  /\ shift_wraps = FALSE

InitCore(flags, seeds, fills, uninits, hists) ==
  /\ argv \in flags
  /\ div0_traps \in BOOLEAN
  /\ hash_seed \in seeds
  /\ fill \in fills
  /\ garbage \in uninits
  /\ rolls \in hists
  /\ phase = "start"
  /\ status = "none"
  /\ graph = default_graph(0)
  /\ graphs = << >>
  /\ output = << >>
  /\ executed = {}
  /\ call = NoCall
  /\ report = NoReport

\* No lists have been handed to the validation.
NoRelations == [deps |-> << >>, rdeps |-> << >>]

\* MPI is not initialised.
NoMpi == [n_ranks |-> 0]

\* No OmpSsApp is constructed.
NoOmpss == [started |-> FALSE]

\* No ParsecApp is constructed.
NoParsec == [started |-> FALSE]

NoExtra ==
  /\ relations = NoRelations
  /\ verdict = "none"
  /\ mpi = NoMpi
  /\ ompss = NoOmpss
  /\ parsec = NoParsec

InitFrom(flags, seeds, fills, uninits, hists) ==
  /\ InitCore(flags, seeds, fills, uninits, hists)
  /\ BackendIdle
  /\ NoDebug
  /\ NoExtra

InitWith(flags, seeds, fills) == InitFrom(flags, seeds, fills, {0}, {NoRolls})

Init == InitWith(Flags(MaxSteps, MaxWidth, MaxRadix, MaxPeriod, {Unset}), 0..MaxSeed, {-1})

\* App::App(argc, argv): parse, then check().
AppCtor ==
  /\ phase = "start"
  /\ phase' = "constructed"
  /\ graphs' = IF flag_error(argv) THEN graphs
               ELSE parse_graphs(argv, garbage, rolls)
  /\ graph' = IF flag_error(argv) THEN graph ELSE graphs'[Len(graphs')]
  /\ status' = IF flag_error(argv) THEN "flag_error"
               ELSE check_graphs(graphs', div0_traps, hash_seed)
  /\ UNCHANGED <<argv, div0_traps, hash_seed, fill, garbage, rolls, output,
                 executed, call, report, backend_vars, debug_vars, extra_vars>>

Next == AppCtor

Spec == Init /\ [][Next]_vars

\* The same program on wider and longer graphs, without -output and -scratch.
InitShape ==
  InitWith(Flags(ShapeMaxSteps, ShapeMaxWidth, ShapeMaxRadix, ShapeMaxPeriod, {Unset}), {0}, {-1})

SpecShape == InitShape /\ [][Next]_vars

(***************************************************************************)
(* App::report_timing, core.cc:1474-1568: the task and dependency totals.  *)
(***************************************************************************)
\* clamp, core.cc:1384-1392: an interval <<first, last>>.
clamp_no_upper_return(start, end, min_value, max_value) ==
  IF end < min_value THEN <<min_value, min_value - 1>>
  ELSE <<Max(start, min_value), Min(end, max_value)>>

clamp(start, end, min_value, max_value) ==
  IF end < min_value THEN <<min_value, min_value - 1>>
  ELSE IF start > max_value THEN <<max_value, max_value - 1>>
  ELSE <<Max(start, min_value), Min(end, max_value)>>

IntervalSize(interval) == interval[2] - interval[1] + 1

\* core.cc:1503-1511: the node of a point and the range of points of that
\* node; nodes = 0 when -nodes is not given.
point_node_of(g, p, nodes) == IF nodes > 0 THEN CDiv(p * nodes, g.max_width) ELSE 0
node_first_of(g, p, nodes) ==
  IF nodes > 0 THEN CDiv(point_node_of(g, p, nodes) * g.max_width, nodes) ELSE 0
node_last_of(g, p, nodes) ==
  IF nodes > 0 THEN CDiv((point_node_of(g, p, nodes) + 1) * g.max_width, nodes) - 1
  ELSE -1

\* core.cc:1518-1526: the part of a clamped dependency interval on the
\* task's node and the part on other nodes.
split_by_node_overlap(g, dep, node_first, node_last) ==
  LET initial == clamp(dep[1], dep[2], 0, node_first - 1)
      local == clamp(dep[1], dep[2], node_first, node_last)
      final == clamp(dep[1], dep[2], node_last, g.max_width - 1)
  IN [local |-> IntervalSize(local),
      nonlocal |-> IntervalSize(initial) + IntervalSize(final)]

split_by_node(g, dep, node_first, node_last) ==
  LET initial == clamp(dep[1], dep[2], 0, node_first - 1)
      local == clamp(dep[1], dep[2], node_first, node_last)
      final == clamp(dep[1], dep[2], node_last + 1, g.max_width - 1)
  IN [local |-> IntervalSize(local),
      nonlocal |-> IntervalSize(initial) + IntervalSize(final)]

RECURSIVE SumSeq(_)
SumSeq(q) == IF q = << >> THEN 0 ELSE Head(q) + SumSeq(Tail(q))

\* The sums of the four counters over a sequence of records.
AddUp(counts) ==
  [num_tasks |-> SumSeq([k \in 1..Len(counts) |-> counts[k].num_tasks]),
   num_deps |-> SumSeq([k \in 1..Len(counts) |-> counts[k].num_deps]),
   local_deps |-> SumSeq([k \in 1..Len(counts) |-> counts[k].local_deps]),
   nonlocal_deps |-> SumSeq([k \in 1..Len(counts) |-> counts[k].nonlocal_deps])]

\* core.cc:1516: every interval of deps clamped to the previous row.
clamp_all(deps, min_value, max_value) ==
  [k \in 1..Len(deps) |-> clamp(deps[k][1], deps[k][2], min_value, max_value)]

\* core.cc:1517-1527: what the clamped intervals of one task add to
\* num_deps, local_deps and nonlocal_deps.
point_counts(g, clamped, node_first, node_last, nodes) ==
  [num_tasks |-> 0,
   num_deps |-> SumSeq([k \in 1..Len(clamped) |-> IntervalSize(clamped[k])]),
   local_deps |->
     IF nodes > 0
     THEN SumSeq([k \in 1..Len(clamped) |->
                    split_by_node(g, clamped[k], node_first, node_last).local])
     ELSE 0,
   nonlocal_deps |->
     IF nodes > 0
     THEN SumSeq([k \in 1..Len(clamped) |->
                    split_by_node(g, clamped[k], node_first, node_last).nonlocal])
     ELSE 0]

\* The body of the loop over the points, core.cc:1502-1529, for task (t, p).
report_point(g, t, p, nodes, seed) ==
  point_counts(g,
               clamp_all(dependencies(g, dependence_set_at_timestep(g, t), p, seed),
                         offset_at_timestep(g, t - 1),
                         offset_at_timestep(g, t - 1) + width_at_timestep(g, t - 1) - 1),
               node_first_of(g, p, nodes), node_last_of(g, p, nodes), nodes)

\* The body of the loop over the timesteps, core.cc:1493-1530: num_tasks
\* grows by the width, the other counters by what the points of the row add.
row_counts(width, counts) == [AddUp(counts) EXCEPT !.num_tasks = width]

report_row(g, t, nodes, seed) ==
  row_counts(width_at_timestep(g, t),
             [j \in 1..width_at_timestep(g, t) |->
                report_point(g, t, offset_at_timestep(g, t) + j - 1, nodes, seed)])

\* The body of the loop over the graphs, core.cc:1484-1531.
report_graph(g, nodes, seed) ==
  AddUp([k \in 1..g.timesteps |-> report_row(g, k - 1, nodes, seed)])

\* What report_timing prints, and the per-graph counts it adds up.
report_totals(by_graph, nodes) ==
  [made |-> TRUE,
   nodes |-> nodes,
   by_graph |-> by_graph,
   total_num_tasks |-> AddUp(by_graph).num_tasks,
   total_num_deps |-> AddUp(by_graph).num_deps,
   total_local_deps |-> AddUp(by_graph).local_deps,
   total_nonlocal_deps |-> AddUp(by_graph).nonlocal_deps]

report_timing(gs, nodes, seed) ==
  report_totals([k \in 1..Len(gs) |-> report_graph(gs[k], nodes, seed)], nodes)

\* App::nodes: 0 (core.cc:800) unless -nodes is given (core.cc:813-821).
app_nodes(a) == IF a.nodes # Unset THEN a.nodes[1] ELSE 0

\* A backend calls report_timing once the graphs have run.
ReportTiming ==
  /\ phase = "constructed"
  /\ status = "ok"
  /\ phase' = "reported"
  /\ report' = report_timing(graphs, app_nodes(argv), hash_seed)
  /\ UNCHANGED <<argv, div0_traps, hash_seed, fill, garbage, rolls, status, graph,
                 graphs, output, executed, call, backend_vars, debug_vars, extra_vars>>

\* The flags of a graph that is followed by -and.
ReportAndSegments ==
  [steps : {<<2>>}, width : {<<3>>}, type : {<<"dom">>, <<"stencil_1d">>},
   radix : {Unset}, period : {Unset}, fraction : {Unset},
   output : {Unset}, scratch : {Unset}, case : {Unset}]

ReportFlags ==
  {a \in
  [steps : Flag(1..ReportMaxSteps),
   width : Flag(1..ReportMaxWidth),
   type : Flag(DependenceTypes),
   radix : {Unset} \cup Flag({0, 2}),
   period : {Unset} \cup Flag({1, 2}),
   fraction : {Unset} \cup Flag({HashRange}),
   output : {Unset},
   scratch : {Unset},
   case : {Unset},
   nodes : {Unset} \cup Flag(0..ReportMaxNodes),
   and : SeqUpTo(ReportAndSegments, 1)] :
     /\ a.type[1] \in UsesRadix \/ a.radix = Unset
     /\ a.type[1] \in UsesPeriod \/ a.period = Unset
     /\ a.type[1] = "random_nearest" \/ a.fraction = Unset}

InitReport == InitWith(ReportFlags, {0}, {-1})

NextReport == AppCtor \/ ReportTiming

SpecReport == InitReport /\ [][NextReport]_vars

(***************************************************************************)
(* Command lines with -output, -case and -and.                             *)
(***************************************************************************)
\* The flags of a graph that is followed by -and.
AndSegments ==
  [steps : {<<1>>}, width : {<<2>>}, type : {Unset, <<"dom">>},
   radix : {Unset}, period : {Unset}, fraction : {Unset},
   output : {Unset}, scratch : {Unset}, case : {Unset}]

ConfigFlags ==
  {a \in [steps : Flag(1..ConfigMaxSteps),
          width : Flag(1..ConfigMaxWidth),
          type : Flag(DependenceTypes),
          radix : {Unset},
          period : {Unset},
          fraction : {Unset},
          output : {Unset} \cup Flag({-1, 0, 15, 16, 40, 48}),
          scratch : {Unset},
          case : {Unset} \cup Flag({-1, 0, 1, 4}),
          nodes : {Unset},
          and : SeqUpTo(AndSegments, ConfigMaxAnd)] :
     \* the int arithmetic of allocate_bytes overflows on a converted
     \* negative size
     a.output = <<-1>> => a.case \in {Unset, <<-1>>, <<0>>}}

\* What the random engine may produce: the number of draws per cell.
RollChoices ==
  {NoRolls,
   [i \in 0..0 |-> NRolls],
   [i \in 0..1 |-> NRolls \div 2],
   [i \in 0..2 |-> NRolls \div 4]}

InitConfig ==
  /\ InitFrom(ConfigFlags, {0}, {-1}, {0, PairBytes}, RollChoices)
  /\ rolls # NoRolls => argv.case = <<1>>

SpecConfig == InitConfig /\ [][Next]_vars

(***************************************************************************)
(* The execution: App::App, then the backend allocates the buffers and     *)
(* calls execute_point.                                                    *)
(***************************************************************************)
\* The patterns that read neither the radix nor the period are run with the
\* two flags absent.
ExecFlags ==
  {a \in Flags(ExecMaxSteps, ExecMaxWidth, ExecMaxRadix, ExecMaxPeriod,
               {Unset} \cup Flag({40})) :
     /\ a.type[1] \in UsesRadix \/ a.radix = Unset
     /\ a.type[1] \in UsesPeriod \/ a.period = Unset
     /\ a.period # <<0>>
     /\ a.fraction = Unset}

InitExec == InitWith(ExecFlags, {0}, {-1, 0})

\* bulk_synchronous.cc:87-108: one output buffer per task, of the size the
\* graph gives; fill is what the fresh memory holds.
AllocateBuffers ==
  /\ phase \in {"constructed", "prepared"}
  /\ status = "ok"
  /\ phase' = "running"
  /\ output' = [tp \in (0..graph.timesteps) \X (0..(graph.max_width - 1)) |->
                  NewBuffer(graph.output_bytes_per_task, fill)]
  /\ UNCHANGED <<argv, div0_traps, hash_seed, fill, garbage, rolls, status, graph,
                 graphs, executed, call, report, backend_vars, debug_vars, extra_vars>>

\* The tasks of the graph before (t, p) in the order the backend runs them
\* (bulk_synchronous.cc:127, 205): by timestep, then by point.
TasksBefore(g, t, p) ==
  {tp \in (0..(g.timesteps - 1)) \X (0..(g.max_width - 1)) :
     /\ tp[2] \in Row(g, tp[1])
     /\ tp[1] < t \/ (tp[1] = t /\ tp[2] < p)}

IsTask(g, t, p) == t < g.timesteps /\ p \in Row(g, t)

\* The arguments of a call: the faithful ones, or the faithful ones with the
\* inputs, the output size or the scratch changed.
FaithfulCall(faithful, buffer_bytes) ==
  [inputs |-> faithful, output_bytes |-> buffer_bytes, scratch_bytes |-> 0,
   scratch_word |-> 0]

CallChoices(faithful, buffer_bytes) ==
  {[inputs |-> faithful, output_bytes |-> n, scratch_bytes |-> 0, scratch_word |-> 0]
     : n \in {buffer_bytes, PairBytes, WordBytes}}
  \cup {[inputs |-> faithful, output_bytes |-> buffer_bytes,
         scratch_bytes |-> WordBytes, scratch_word |-> MAGIC_VALUE]}
  \cup {[inputs |-> i, output_bytes |-> buffer_bytes, scratch_bytes |-> 0,
         scratch_word |-> 0] : i \in InputChoices(faithful)}

\* std::vector<char>::resize(n): the first n bytes are kept, new bytes are 0.
Resize(buffer, n) ==
  [bytes |-> n,
   words |-> [k \in 1..(n \div WordBytes) |->
                IF k <= Len(buffer.words) THEN buffer.words[k] ELSE 0]]

\* One call of execute_point, on the next task of the graph or on a
\* (timestep, point) that is no task: the output buffer is resized to the
\* output size and passed with that size (bulk_synchronous.cc:214-220).
\* A failed assertion aborts the process.
ExecutePoint ==
  /\ phase = "running"
  /\ \E t \in 0..graph.timesteps, p \in 0..(graph.max_width - 1) :
       /\ IsTask(graph, t, p) =>
            <<t, p>> \notin executed /\ TasksBefore(graph, t, p) \subseteq executed
       /\ \E c \in IF IsTask(graph, t, p)
                   THEN CallChoices(FaithfulInputs(graph, output, t, p, hash_seed),
                                    output[<<t, p>>].bytes)
                   ELSE {FaithfulCall(FaithfulInputs(graph, output, t, p, hash_seed),
                                      output[<<t, p>>].bytes)} :
            LET point_output == Resize(output[<<t, p>>], c.output_bytes)
                r == execute_point(graph, t, p, point_output.words, point_output.bytes,
                                   c.inputs, c.scratch_word, c.scratch_bytes,
                                   div0_traps, hash_seed)
            IN /\ call' = [made |-> TRUE, timestep |-> t, point |-> p,
                           output_bytes |-> point_output.bytes, inputs |-> c.inputs,
                           before |-> point_output.words, result |-> r.result]
               /\ output' = [output EXCEPT ![<<t, p>>] =
                                          [bytes |-> point_output.bytes, words |-> r.words]]
               /\ executed' = IF r.result = "ok" THEN executed \cup {<<t, p>>}
                              ELSE executed
               /\ phase' = IF r.result = "ok" THEN "running" ELSE "aborted"
  /\ UNCHANGED <<argv, div0_traps, hash_seed, fill, garbage, rolls, status, graph,
                 graphs, report, backend_vars, debug_vars, extra_vars>>

NextExec == AppCtor \/ AllocateBuffers \/ ExecutePoint

SpecExec == InitExec /\ [][NextExec]_vars

(***************************************************************************)
(* Scratch buffers: TaskGraph::prepare_scratch (core.cc:667-674) and the   *)
(* backend that allocates one buffer for the points of a graph and hands   *)
(* every task its slice (bulk_synchronous.cc:34-43, 58-59, 221), run on    *)
(* one rank.  The kernel is the default one, which leaves the scratch      *)
(* alone.                                                                  *)
(***************************************************************************)
\* Only the first word of the buffer is written.
prepare_scratch_first_word(words, scratch_bytes) ==
  IF scratch_bytes % WordBytes # 0
  THEN [result |-> "assert_scratch_multiple", words |-> words]
  ELSE [result |-> "ok",
        words |-> [k \in 1..Len(words) |->
                     IF k <= 1 /\ k <= scratch_bytes \div WordBytes
                     THEN MAGIC_VALUE ELSE words[k]]]

\* prepare_scratch(scratch_ptr, scratch_bytes): the result and the words of
\* the buffer afterwards.
prepare_scratch(words, scratch_bytes) ==
  IF scratch_bytes % WordBytes # 0
  THEN [result |-> "assert_scratch_multiple", words |-> words]
  ELSE [result |-> "ok",
        words |-> [k \in 1..Len(words) |->
                     IF k <= scratch_bytes \div WordBytes
                     THEN MAGIC_VALUE ELSE words[k]]]

\* bulk_synchronous.cc:34-43: std::vector<char>(scratch_bytes * n_points) is
\* zero-filled, then prepared; n_points is max_width on one rank.
AllocateScratch ==
  /\ phase = "constructed"
  /\ status = "ok"
  /\ LET n == graph.scratch_bytes_per_task * graph.max_width
         fresh == NewBuffer(n, 0)
         r == prepare_scratch(fresh.words, n)
     IN /\ scratch' = [bytes |-> n, words |-> r.words]
        /\ phase' = IF r.result = "ok" THEN "prepared" ELSE "aborted"
  /\ UNCHANGED <<argv, div0_traps, hash_seed, fill, garbage, rolls, status, graph,
                 graphs, output, executed, call, report, debug_vars, extra_vars>>

\* The word at a byte offset of the buffer that is a multiple of 8; nothing
\* is read from an empty slice.
SliceWord(buffer, offset) ==
  IF offset \div WordBytes + 1 \in DOMAIN buffer.words
  THEN buffer.words[offset \div WordBytes + 1]
  ELSE 0

\* The scratch arguments of a call for the point with index point_index:
\* the slice of the point with the size of the graph (faithful), or a slice
\* whose first word is changed, or another size.
ScratchChoices(g, buffer, point_index) ==
  LET bytes == g.scratch_bytes_per_task
      word == SliceWord(buffer, bytes * point_index)
  IN {[kind |-> "faithful", scratch_bytes |-> bytes, scratch_word |-> word],
      [kind |-> "other_size", scratch_bytes |-> bytes + WordBytes, scratch_word |-> word]}
     \cup (IF bytes = 0 THEN {}
           ELSE {[kind |-> "corrupt", scratch_bytes |-> bytes, scratch_word |-> word + 1],
                 [kind |-> "unprepared", scratch_bytes |-> bytes, scratch_word |-> 0],
                 [kind |-> "no_scratch", scratch_bytes |-> 0, scratch_word |-> word]})

\* bulk_synchronous.cc:205-221 with the scratch arguments: the next task
\* of the graph is run on the outputs of its dependencies.
ExecutePointScratch ==
  /\ phase = "running"
  /\ \E t \in 0..(graph.timesteps - 1), p \in 0..(graph.max_width - 1) :
       /\ IsTask(graph, t, p)
       /\ <<t, p>> \notin executed
       /\ TasksBefore(graph, t, p) \subseteq executed
       /\ \E c \in ScratchChoices(graph, scratch, p) :
            LET inputs == FaithfulInputs(graph, output, t, p, hash_seed)
                point_output == Resize(output[<<t, p>>], graph.output_bytes_per_task)
                r == execute_point(graph, t, p, point_output.words, point_output.bytes,
                                   inputs, c.scratch_word, c.scratch_bytes,
                                   div0_traps, hash_seed)
            IN /\ call' = [made |-> TRUE, timestep |-> t, point |-> p,
                           output_bytes |-> point_output.bytes, inputs |-> inputs,
                           before |-> point_output.words, result |-> r.result,
                           kind |-> c.kind, scratch_bytes |-> c.scratch_bytes,
                           scratch_word |-> c.scratch_word]
               /\ output' = [output EXCEPT ![<<t, p>>] =
                                          [bytes |-> point_output.bytes, words |-> r.words]]
               /\ executed' = IF r.result = "ok" THEN executed \cup {<<t, p>>}
                              ELSE executed
               /\ phase' = IF r.result = "ok" THEN "running" ELSE "aborted"
  /\ UNCHANGED <<argv, div0_traps, hash_seed, fill, garbage, rolls, status, graph,
                 graphs, report, backend_vars, debug_vars, extra_vars>>

\* Command lines with -scratch.  A size that is no multiple of 8 comes with
\* an odd width, so that prepare_scratch rejects the buffer; with an even
\* width the slices would not be aligned.
ScratchFlags ==
  {a \in [steps : Flag(1..ScratchMaxSteps),
          width : Flag(1..ScratchMaxWidth),
          type : Flag(DependenceTypes),
          radix : {Unset},
          period : {Unset},
          fraction : {Unset},
          output : {Unset},
          scratch : {Unset} \cup Flag({-8, 0, 8, 12, 16}),
          case : {Unset},
          nodes : {Unset},
          and : {<< >>}] :
     (a.scratch # Unset /\ a.scratch[1] % WordBytes # 0) => a.width[1] % 2 = 1}

InitScratch == InitWith(ScratchFlags, {0}, {-1})

\* The output buffers are allocated after the scratch buffers.
NextScratch ==
  \/ AppCtor
  \/ AllocateScratch
  \/ (phase = "prepared" /\ AllocateBuffers)
  \/ ExecutePointScratch

SpecScratch == InitScratch /\ [][NextScratch]_vars

(***************************************************************************)
(* The build with DEBUG_CORE: the process-wide mask has_executed_graph     *)
(* (core.cc:34-37).  A TaskGraphMask is the set of its bits that are 1.    *)
(***************************************************************************)
\* The expression 1 << graph_index of core.cc:584 and 1491, converted to
\* TaskGraphMask.  The literal 1 is an int: a shift by 31 gives INT_MIN,
\* whose conversion to 64 bits sets the bits 31..63; a shift by 32 or more
\* is undefined: the count is taken modulo 32 (wraps) or the result is 0.
shift_one(graph_index, wraps) ==
  LET count == IF graph_index >= IntBits /\ wraps THEN graph_index % IntBits
               ELSE graph_index
  IN IF count >= IntBits THEN {}
     ELSE IF count = IntBits - 1 THEN (IntBits - 1)..(MaskBits - 1)
     ELSE {count}

\* The additional check of App::check, core.cc:1143-1148.
check_debug(gs) ==
  IF Len(gs) >= MaskBits THEN "error_too_many_graphs" ELSE "ok"

\* App::App in the debug build.
AppCtorDebug ==
  /\ phase = "start"
  /\ phase' = "constructed"
  /\ graphs' = IF flag_error(argv) THEN graphs
               ELSE parse_graphs(argv, garbage, rolls)
  /\ graph' = IF flag_error(argv) THEN graph ELSE graphs'[Len(graphs')]
  /\ status' = IF flag_error(argv) THEN "flag_error"
               ELSE IF check_debug(graphs') # "ok" THEN check_debug(graphs')
               ELSE check_graphs(graphs', div0_traps, hash_seed)
  /\ UNCHANGED <<argv, div0_traps, hash_seed, fill, garbage, rolls, output,
                 executed, call, report, backend_vars, debug_vars, extra_vars>>

\* A thread calls execute_point on a task of the first row of some graph,
\* with a fresh output buffer of its own; the update of the mask is one
\* atomic read-modify-write (core.cc:581-585), so the calls of concurrent
\* threads interleave as whole steps.  The graphs are started in any order
\* in which at most MaskMaxSkipped graphs of a lower index are still to run.
ExecutePointDebug ==
  /\ phase = "constructed"
  /\ status = "ok"
  /\ \E k \in 1..Len(graphs) :
       LET g == graphs[k]
       IN /\ Cardinality((0..(g.graph_index - 1)) \ ran) <= MaskMaxSkipped
          /\ \E p \in Row(g, 0) :
               LET buffer == NewBuffer(PairBytes, fill)
                   in_range == g.graph_index >= 0 /\ g.graph_index < MaskBits
                   r == execute_point(g, 0, p, buffer.words, buffer.bytes, << >>,
                                      0, g.scratch_bytes_per_task, div0_traps, hash_seed)
                   result == IF in_range THEN r.result ELSE "assert_graph_index"
               IN /\ has_executed_graph' =
                       IF in_range
                       THEN has_executed_graph \cup shift_one(g.graph_index, shift_wraps)
                       ELSE has_executed_graph
                  /\ ran' = IF in_range THEN ran \cup {g.graph_index} ELSE ran
                  /\ call' = [made |-> TRUE, timestep |-> 0, result |-> result]
                  /\ phase' = IF result = "ok" THEN phase ELSE "aborted"
  /\ UNCHANGED <<argv, div0_traps, hash_seed, fill, garbage, rolls, status, graph,
                 graphs, output, executed, report, backend_vars, shift_wraps, extra_vars>>

\* The assertion of core.cc:1489-1493 for the graph g.
has_executed(g, mask, wraps) == (mask \cap shift_one(g.graph_index, wraps)) # {}

\* report_timing in the debug build, with validation enabled
\* (core.cc:802): the first graph whose bit is missing aborts.
ReportTimingDebug ==
  /\ phase = "constructed"
  /\ status = "ok"
  /\ LET passes == \A k \in 1..Len(graphs) :
                     has_executed(graphs[k], has_executed_graph, shift_wraps)
     IN /\ phase' = IF passes THEN "reported" ELSE "report_aborted"
        /\ report' = IF passes THEN report_timing(graphs, app_nodes(argv), hash_seed)
                     ELSE report
  /\ UNCHANGED <<argv, div0_traps, hash_seed, fill, garbage, rolls, status, graph,
                 graphs, output, executed, call, backend_vars, debug_vars, extra_vars>>

\* The flags of a graph that is followed by -and.
DebugSegment ==
  [steps |-> <<1>>, width |-> <<1>>, type |-> Unset, radix |-> Unset,
   period |-> Unset, fraction |-> Unset, output |-> Unset, scratch |-> Unset,
   case |-> Unset]

\* The numbers of graphs of the command lines: few, around the width of an
\* int, and around the width of the mask.
MaskGraphCounts ==
  (1..3) \cup ((IntBits - 1)..(IntBits + 1)) \cup ((MaskBits - 1)..MaskBits)

DebugFlags ==
  [steps : {<<1>>},
   width : {<<1>>},
   type : Flag({"trivial", "stencil_1d"}),
   radix : {Unset},
   period : {Unset},
   fraction : {Unset},
   output : {Unset},
   scratch : {Unset},
   case : {Unset},
   nodes : {Unset},
   and : {[k \in 1..(n - 1) |-> DebugSegment] : n \in MaskGraphCounts}]

InitDebug ==
  /\ InitCore(DebugFlags, {0}, {-1}, {0}, {NoRolls})
  /\ BackendIdle
  /\ has_executed_graph = {}
  /\ ran = {}
  /\ shift_wraps \in BOOLEAN
  /\ NoExtra

NextDebug == AppCtorDebug \/ ExecutePointDebug \/ ReportTimingDebug

SpecDebug == InitDebug /\ [][NextDebug]_vars

(***************************************************************************)
(* The validation of App::check (core.cc:1180-1201) as a decision          *)
(* procedure: it is run on arbitrary lists in place of the results of      *)
(* dependencies and reverse_dependencies.                                  *)
(***************************************************************************)
MirrorPoints == 0..1

\* The lists of at most MirrorMaxLen one-point intervals.
MirrorLists ==
  UNION {[1..n -> {<<p, p>> : p \in MirrorPoints}] : n \in 0..MirrorMaxLen}

InitMirror ==
  /\ InitCore(Flags(1, 2, 0, 0, {Unset}), {0}, {-1}, {0}, {NoRolls})
  /\ argv.width = <<2>> /\ argv.type = <<"trivial">>
  /\ argv.radix = Unset /\ argv.period = Unset /\ argv.fraction = Unset
  /\ BackendIdle
  /\ NoDebug
  /\ relations \in [deps : [MirrorPoints -> MirrorLists],
                     rdeps : [MirrorPoints -> MirrorLists]]
  /\ verdict = "none"
  /\ mpi = NoMpi
  /\ ompss = NoOmpss
  /\ parsec = NoParsec

\* One run of the two loops on the lists.
CheckMirror ==
  /\ verdict = "none"
  /\ verdict' = check_mirror(MirrorPoints, relations.deps, relations.rdeps)
  /\ UNCHANGED <<argv, div0_traps, hash_seed, fill, garbage, rolls, phase, status,
                 graph, graphs, output, executed, call, report, backend_vars,
                 debug_vars, relations, mpi, ompss, parsec>>

NextMirror == CheckMirror

SpecMirror == InitMirror /\ [][NextMirror]_vars

(***************************************************************************)
(* The bulk-synchronous MPI backend, src/mpi/bulk_synchronous.cc, on one   *)
(* graph.  mpi holds, for every rank, its timestep and its position in the *)
(* loop body (post, wait, execute), the buffers of its points, and the     *)
(* requests that are posted and not completed.                             *)
(***************************************************************************)
\* bulk_synchronous.cc:54-56 and 64-65.
first_point_of(g, rank, n_ranks) == CDiv(rank * g.max_width, n_ranks)
last_point_of(g, rank, n_ranks) == CDiv((rank + 1) * g.max_width, n_ranks) - 1

rank_points(g, rank, n_ranks) ==
  {p \in 0..(g.max_width - 1) :
     first_point_of(g, rank, n_ranks) <= p /\ p <= last_point_of(g, rank, n_ranks)}

\* bulk_synchronous.cc:61-73.
rank_by_point(g, p, n_ranks) ==
  CHOOSE r \in 0..(n_ranks - 1) : p \in rank_points(g, r, n_ranks)

tag_bits_by_point(g, p, n_ranks) ==
  p - first_point_of(g, rank_by_point(g, p, n_ranks), n_ranks)

\* (from << 8) | to, for tag bits below 128.
message_tag(from, to) == from * 256 + to

\* bulk_synchronous.cc:75-85.
max_deps_of(g, rank, n_ranks, seed) ==
  LET counts == {Len(Materialize(dependencies(g, dset, point, seed))) :
                   dset \in 0..(max_dependence_sets(g) - 1),
                   point \in rank_points(g, rank, n_ranks)}
  IN IF counts = {} THEN 0 ELSE CHOOSE m \in counts : \A c \in counts : c <= m

\* graph.output_bytes_size[t][point].
table_cell(g, t, point) == g.output_bytes_size.cells[<<t, point>>]

\* bulk_synchronous.cc:87-108, for every rank: max_deps input buffers and
\* one output buffer per point, of output_bytes_size[0][point] zero bytes.
mpi_buffers(g, n_ranks, seed) ==
  [inputs |->
     [p \in 0..(g.max_width - 1) |->
        [k \in 1..max_deps_of(g, rank_by_point(g, p, n_ranks), n_ranks, seed) |->
           NewBuffer(table_cell(g, 0, p), 0)]],
   outputs |->
     [p \in 0..(g.max_width - 1) |-> NewBuffer(table_cell(g, 0, p), 0)]]

\* MPI_Init and the setup of the ranks for the graph.
MpiStart ==
  /\ phase = "constructed"
  /\ status = "ok"
  /\ phase' = "mpi"
  /\ \E n_ranks \in 1..MpiMaxRanks :
       LET buffers == mpi_buffers(graph, n_ranks, hash_seed)
       IN mpi' = [n_ranks |-> n_ranks,
                  timestep |-> [r \in 0..(n_ranks - 1) |-> 0],
                  pc |-> [r \in 0..(n_ranks - 1) |-> "post"],
                  inputs |-> buffers.inputs,
                  n_inputs |-> [p \in 0..(graph.max_width - 1) |-> 0],
                  outputs |-> buffers.outputs,
                  recvs |-> {},
                  sends |-> {},
                  result |-> "ok"]
  /\ UNCHANGED <<argv, div0_traps, hash_seed, fill, garbage, rolls, status, graph,
                 graphs, output, executed, call, report, backend_vars, debug_vars,
                 relations, verdict, ompss, parsec>>

\* The receive half of bulk_synchronous.cc:152-180 for one point: the
\* MPI_Irecv calls, one for every dependency in the previous row that lives
\* on another rank; slot is the index of the input buffer.
point_recvs(g, rank, n_ranks, t, point, seed) ==
  LET required == required_dependencies(g, t, point, seed)
  IN IF ~(point \in Row(g, t)) THEN {}
     ELSE {[src |-> rank_by_point(g, required[k], n_ranks),
            dst |-> rank,
            tag |-> message_tag(tag_bits_by_point(g, required[k], n_ranks),
                                tag_bits_by_point(g, point, n_ranks)),
            point |-> point,
            slot |-> k] :
             k \in {j \in 1..Len(required) :
                      required[j] \notin rank_points(g, rank, n_ranks)}}

\* The send half, bulk_synchronous.cc:182-199: the MPI_Isend calls of one
\* point of the previous row; k is the position in its reverse dependencies.
point_sends(g, rank, n_ranks, t, point, seed) ==
  LET dset == dependence_set_at_timestep(g, t)
      rdeps == Materialize(reverse_dependencies(g, dset, point, seed))
  IN IF ~(point \in Row(g, t - 1)) THEN {}
     ELSE {[src |-> rank,
            dst |-> rank_by_point(g, rdeps[k], n_ranks),
            tag |-> message_tag(tag_bits_by_point(g, point, n_ranks),
                                tag_bits_by_point(g, rdeps[k], n_ranks)),
            point |-> point,
            k |-> k] :
             k \in {j \in 1..Len(rdeps) :
                      /\ rdeps[j] \in Row(g, t)
                      /\ rdeps[j] \notin rank_points(g, rank, n_ranks)}}

\* The input buffers of a point after the loop body: the buffers of the
\* dependencies on the same rank are copies of their outputs, resized
\* (bulk_synchronous.cc:162-167).
point_local_inputs(g, rank, n_ranks, t, point, seed, inputs, outputs) ==
  LET required == required_dependencies(g, t, point, seed)
  IN IF ~(point \in Row(g, t)) THEN inputs[point]
     ELSE [k \in 1..Len(inputs[point]) |->
             IF k <= Len(required) /\ required[k] \in rank_points(g, rank, n_ranks)
             THEN Resize(outputs[required[k]], table_cell(g, t - 1, required[k]))
             ELSE inputs[point][k]]

\* One rank runs the loop over its points of bulk_synchronous.cc:141-200
\* and reaches MPI_Waitall.
MpiPost ==
  /\ phase = "mpi"
  /\ \E rank \in 0..(mpi.n_ranks - 1) :
       /\ mpi.pc[rank] = "post"
       /\ LET n == mpi.n_ranks
              t == mpi.timestep[rank]
              mine == rank_points(graph, rank, n)
          IN mpi' = [mpi EXCEPT
               !.pc[rank] = "wait",
               !.n_inputs = [p \in DOMAIN @ |->
                  IF p \notin mine THEN @[p]
                  ELSE IF p \in Row(graph, t)
                       THEN Len(required_dependencies(graph, t, p, hash_seed))
                       ELSE 0],
               !.inputs = [p \in DOMAIN @ |->
                  IF p \notin mine THEN @[p]
                  ELSE point_local_inputs(graph, rank, n, t, p, hash_seed,
                                          mpi.inputs, mpi.outputs)],
               !.recvs = @ \cup UNION {point_recvs(graph, rank, n, t, p, hash_seed) :
                                         p \in mine},
               !.sends = @ \cup UNION {point_sends(graph, rank, n, t, p, hash_seed) :
                                         p \in mine}]
  /\ UNCHANGED <<argv, div0_traps, hash_seed, fill, garbage, rolls, phase, status,
                 graph, graphs, output, executed, call, report, backend_vars,
                 debug_vars, relations, verdict, ompss, parsec>>

\* What identifies a message for the matching of MPI.
message_key(request) == <<request.src, request.dst, request.tag>>

\* Every posted request has exactly one partner with its key.
requests_match(recvs, sends) ==
  /\ \A a, b \in recvs : message_key(a) = message_key(b) => a = b
  /\ \A a, b \in sends : message_key(a) = message_key(b) => a = b
  /\ {message_key(q) : q \in recvs} = {message_key(q) : q \in sends}

\* The send that a receive is matched with.
partner(recv, sends) == CHOOSE q \in sends : message_key(q) = message_key(recv)

\* A message of the bytes of the buffer sent, received into a buffer: the
\* buffer keeps its size.
Received(buffer, sent) ==
  [bytes |-> buffer.bytes,
   words |-> [k \in 1..Len(buffer.words) |->
                IF k <= Len(sent.words) THEN sent.words[k] ELSE buffer.words[k]]]

\* MPI_Waitall and MPI_Barrier (bulk_synchronous.cc:203-205), once every
\* rank has posted its requests: the requests complete and are cleared.  A
\* request without a partner never completes; a message longer than the
\* buffer of its receive is an error, which is fatal.
MpiWaitall ==
  /\ phase = "mpi"
  /\ \A rank \in 0..(mpi.n_ranks - 1) : mpi.pc[rank] = "wait"
  /\ LET matched == requests_match(mpi.recvs, mpi.sends)
         truncated == \E q \in mpi.recvs :
                        mpi.outputs[partner(q, mpi.sends).point].bytes
                          > mpi.inputs[q.point][q.slot].bytes
         result == IF ~matched THEN "unmatched_request"
                   ELSE IF truncated THEN "MPI_ERR_TRUNCATE"
                   ELSE "ok"
     IN /\ phase' = IF result = "ok" THEN phase ELSE "aborted"
        /\ mpi' = IF result # "ok" THEN [mpi EXCEPT !.result = result]
                  ELSE [mpi EXCEPT
                    !.pc = [r \in DOMAIN @ |-> "execute"],
                    !.recvs = {},
                    !.sends = {},
                    !.inputs = [p \in DOMAIN @ |->
                       [k \in 1..Len(@[p]) |->
                          IF \E q \in mpi.recvs : q.point = p /\ q.slot = k
                          THEN LET q == CHOOSE q \in mpi.recvs :
                                          q.point = p /\ q.slot = k
                               IN Received(@[p][k],
                                           mpi.outputs[partner(q, mpi.sends).point])
                          ELSE @[p][k]]]]
  /\ UNCHANGED <<argv, div0_traps, hash_seed, fill, garbage, rolls, status,
                 graph, graphs, output, executed, call, report, backend_vars,
                 debug_vars, relations, verdict, ompss, parsec>>

\* The call of bulk_synchronous.cc:206-222 for one point of the row: the
\* output buffer is resized, then passed with the first n_inputs inputs.
mpi_execute_point(g, t, point, inputs, n_inputs, outputs, traps, seed) ==
  LET point_output == Resize(outputs[point], table_cell(g, t, point))
  IN execute_point(g, t, point, point_output.words, point_output.bytes,
                   SubSeq(inputs[point], 1, n_inputs[point]),
                   0, g.scratch_bytes_per_task, traps, seed)

\* One rank executes its points of the row and goes to the next timestep.
MpiExecute ==
  /\ phase = "mpi"
  /\ \E rank \in 0..(mpi.n_ranks - 1) :
       /\ mpi.pc[rank] = "execute"
       /\ LET t == mpi.timestep[rank]
              mine == rank_points(graph, rank, mpi.n_ranks) \cap Row(graph, t)
              run == [p \in mine |->
                        mpi_execute_point(graph, t, p, mpi.inputs, mpi.n_inputs,
                                          mpi.outputs, div0_traps, hash_seed)]
              failed == {p \in mine : run[p].result # "ok"}
              first_failed == CHOOSE p \in failed : \A q \in failed : p <= q
          IN /\ phase' = IF failed = {} THEN phase ELSE "aborted"
             /\ mpi' = IF failed # {}
                       THEN [mpi EXCEPT !.result = run[first_failed].result]
                       ELSE [mpi EXCEPT
                         !.outputs = [p \in DOMAIN @ |->
                            IF p \in mine
                            THEN [bytes |-> table_cell(graph, t, p),
                                  words |-> run[p].words]
                            ELSE @[p]],
                         !.timestep[rank] = t + 1,
                         !.pc[rank] = IF t + 1 < graph.timesteps THEN "post"
                                      ELSE "done"]
  /\ UNCHANGED <<argv, div0_traps, hash_seed, fill, garbage, rolls, status,
                 graph, graphs, output, executed, call, report, backend_vars,
                 debug_vars, relations, verdict, ompss, parsec>>

\* The command lines of the MPI runs.  random_spread is left out: for it
\* the backend indexes its cache of dependencies out of range.
MpiFlags ==
  {a \in [steps : Flag(1..MpiMaxSteps),
          width : Flag(1..MpiMaxWidth),
          type : Flag(DependenceTypes \ {"random_spread"}),
          radix : {Unset},
          period : {Unset, <<1>>},
          fraction : {Unset},
          output : {Unset, <<32>>},
          scratch : {Unset},
          case : {Unset},
          nodes : {Unset},
          and : {<< >>}] :
     a.type[1] \in UsesPeriod \/ a.period = Unset}

InitMpi ==
  /\ InitCore(MpiFlags, {0}, {-1}, {0, PairBytes, 2 * PairBytes}, {NoRolls})
  /\ BackendIdle
  /\ NoDebug
  /\ NoExtra

NextMpi == AppCtor \/ MpiStart \/ MpiPost \/ MpiWaitall \/ MpiExecute

SpecMpi == InitMpi /\ [][NextMpi]_vars

(***************************************************************************)
(* The OmpSs backend, src/ompss/main.cc, on one graph.  The matrix of the  *)
(* graph is a ring of nb_fields rows of max_width tiles; task (t, x)       *)
(* writes tile (t mod nb_fields, x).  ompss holds the buffers of the       *)
(* tiles and the tasks that have run.                                      *)
(***************************************************************************)
\* graph.output_bytes_size[y][x] for a row y of the ring: a row past the
\* table is read out of bounds.
ring_cell(g, y, x, uninit) ==
  IF y < g.timesteps THEN table_cell(g, y, x) ELSE uninit

\* OmpSsApp::OmpSsApp, main.cc:375-384: one malloc per tile, of the size
\* in the table; malloc leaves the bytes uninitialised.
ompss_tiles(g, uninit, w) ==
  [tile \in (0..(g.nb_fields - 1)) \X (0..(g.max_width - 1)) |->
     NewBuffer(ring_cell(g, tile[1], tile[2], uninit), w)]

OmpSsCtor ==
  /\ phase = "constructed"
  /\ status = "ok"
  /\ \E segfault \in BOOLEAN :
       /\ segfault => graph.nb_fields > graph.timesteps
       /\ phase' = IF segfault THEN "aborted" ELSE "ompss"
       /\ ompss' = [started |-> TRUE,
                    tiles |-> ompss_tiles(graph, garbage, fill),
                    done |-> {},
                    result |-> IF segfault THEN "SIGSEGV" ELSE "ok"]
  /\ UNCHANGED <<argv, div0_traps, hash_seed, fill, garbage, rolls, status, graph,
                 graphs, output, executed, call, report, backend_vars, debug_vars,
                 relations, verdict, mpi, parsec>>

\* The tile of row t, column x.
ring_tile(g, t, x) == <<t % g.nb_fields, x>>

\* execute_timestep, main.cc:460-524: the arguments of task (t, x), its own
\* tile first, then the tiles of its dependencies in the previous row.
task_args(g, t, x, seed) ==
  LET required == required_dependencies(g, t, x, seed)
  IN <<ring_tile(g, t, x)>>
       \o [k \in 1..Len(required) |-> ring_tile(g, t - 1, required[k])]

\* insert_task, main.cc:526-800: the tile declared inout and the tiles
\* declared in.
task_inout(g, task, seed) == task_args(g, task[1], task[2], seed)[1]
task_in(g, task, seed) == SeqToSet(Tail(task_args(g, task[1], task[2], seed)))

\* The tasks in the order execute_main_loop inserts them.
ompss_tasks(g) == {task \in (0..(g.timesteps - 1)) \X (0..(g.max_width - 1)) :
                     IsTask(g, task[1], task[2])}

inserted_before(a, b) == a[1] < b[1] \/ (a[1] = b[1] /\ a[2] < b[2])

\* The runtime runs b after a: a is inserted first, and one of them writes
\* a tile that the other reads or writes.
depends_on(g, b, a, seed) ==
  /\ inserted_before(a, b)
  /\ \/ task_inout(g, a, seed) = task_inout(g, b, seed)
     \/ task_inout(g, a, seed) \in task_in(g, b, seed)
     \/ task_inout(g, b, seed) \in task_in(g, a, seed)

\* task1 .. task10, main.cc:66-340: the call of execute_point.  task1
\* passes its own tile as one input.
ompss_task(g, task, tiles, uninit, traps, seed) ==
  LET args == task_args(g, task[1], task[2], seed)
      size_of(tile) == ring_cell(g, tile[1], tile[2], uninit)
      passed == IF Len(args) = 1 THEN args ELSE Tail(args)
      inputs == [k \in 1..Len(passed) |->
                   [bytes |-> size_of(passed[k]), words |-> tiles[passed[k]].words]]
  IN execute_point(g, task[1], task[2], tiles[args[1]].words, size_of(args[1]),
                   inputs, 0, g.scratch_bytes_per_task, traps, seed)

\* A worker runs a task whose dependences are satisfied.
OmpssRunTask ==
  /\ phase = "ompss"
  /\ \E task \in ompss_tasks(graph) \ ompss.done :
       /\ \A a \in ompss_tasks(graph) :
            depends_on(graph, task, a, hash_seed) => a \in ompss.done
       /\ LET run == ompss_task(graph, task, ompss.tiles, garbage, div0_traps,
                                hash_seed)
              tile_out == task_inout(graph, task, hash_seed)
          IN /\ phase' = IF run.result = "ok" THEN phase ELSE "aborted"
             /\ ompss' = [ompss EXCEPT
                  !.tiles[tile_out].words = run.words,
                  !.done = IF run.result = "ok" THEN @ \cup {task} ELSE @,
                  !.result = run.result]
  /\ UNCHANGED <<argv, div0_traps, hash_seed, fill, garbage, rolls, status, graph,
                 graphs, output, executed, call, report, backend_vars, debug_vars,
                 relations, verdict, mpi, parsec>>

\* The command lines of the OmpSs runs.
OmpssFlags ==
  {a \in [steps : Flag(1..OmpssMaxSteps),
          width : Flag(1..OmpssMaxWidth),
          type : Flag(DependenceTypes),
          radix : {Unset},
          period : {Unset, <<1>>},
          fraction : {Unset},
          output : {Unset},
          scratch : {Unset},
          case : {Unset},
          field : {Unset} \cup Flag(0..OmpssMaxFields),
          nodes : {Unset},
          and : {<< >>}] :
     a.type[1] \in UsesPeriod \/ a.period = Unset}

InitOmpss ==
  /\ InitCore(OmpssFlags, {0}, {-1}, {0, PairBytes}, {NoRolls})
  /\ BackendIdle
  /\ NoDebug
  /\ NoExtra

NextOmpss == AppCtor \/ OmpSsCtor \/ OmpssRunTask

SpecOmpss == InitOmpss /\ [][NextOmpss]_vars

(***************************************************************************)
(* The scratch memory of the PaRSEC backend, src/parsec/main_buffer.cc:    *)
(* every core has NB_LOCAL_MEMORY blocks of memory_block_size bytes, the   *)
(* largest scratch_bytes_per_task of the graphs, used in turn by the tasks *)
(* that run on the core.  parsec holds the words of the memory of every    *)
(* core, its init flag and its block index.                                *)
(***************************************************************************)
\* main_buffer.cc:783-841.
max_scratch_bytes_per_task(gs) ==
  LET sizes == {gs[k].scratch_bytes_per_task : k \in 1..Len(gs)} \cup {0}
  IN CHOOSE m \in sizes : \A n \in sizes : n <= m

\* ParsecApp::ParsecApp, main_buffer.cc:845-862: malloc leaves the blocks
\* uninitialised.
ParsecCtor ==
  /\ phase = "constructed"
  /\ status = "ok"
  /\ phase' = "parsec"
  /\ \E cores \in 1..ParsecMaxCores :
       LET block == max_scratch_bytes_per_task(graphs)
       IN parsec' =
            [started |-> TRUE,
             memory_block_size |-> block,
             extra_local_memory |->
               [core \in 0..(cores - 1) |->
                  NewBuffer(block * NB_LOCAL_MEMORY, fill).words],
             extra_local_memory_init_flag |->
               [core \in 0..(cores - 1) |-> IF block > 0 THEN 1 ELSE 0],
             extra_local_memory_idx |-> [core \in 0..(cores - 1) |-> 0],
             done |-> {},
             call |-> [scratch_bytes |-> 0, scratch_word |-> 0],
             result |-> "ok"]
  /\ UNCHANGED <<argv, div0_traps, hash_seed, fill, garbage, rolls, status, graph,
                 graphs, output, executed, call, report, backend_vars, debug_vars,
                 relations, verdict, mpi, ompss>>

\* The first word of block k of a core's memory.
block_start(k, block) == k * (block \div WordBytes) + 1

\* The loop of main_buffer.cc:96-98: prepare_scratch on the NB_LOCAL_MEMORY
\* blocks, with the scratch size of the graph of the task.
prepare_blocks(memory, block, scratch_bytes) ==
  [result |-> prepare_scratch(memory, scratch_bytes).result,
   words |->
     [w \in 1..Len(memory) |->
        LET k == (w - 1) \div (block \div WordBytes)
            from == block_start(k, block)
        IN prepare_scratch(SubSeq(memory, from, Len(memory)),
                           scratch_bytes).words[w - from + 1]]]

\* test_task1, main_buffer.cc:78-105, for a task of the first row of a
\* graph, on a core: the blocks are prepared if the init flag is 1, then
\* execute_point is called with the block of the core's index.  The task
\* has an output buffer of its own and passes it as its one input.
ParsecTask ==
  /\ phase = "parsec"
  /\ \E core \in DOMAIN parsec.extra_local_memory_idx, k \in 1..Len(graphs) :
       \E p \in Row(graphs[k], 0) :
         /\ <<k, p>> \notin parsec.done
         /\ LET g == graphs[k]
                first == parsec.extra_local_memory_init_flag[core] = 1
                prepared == prepare_blocks(parsec.extra_local_memory[core],
                                           parsec.memory_block_size,
                                           g.scratch_bytes_per_task)
                memory == IF first THEN prepared.words
                          ELSE parsec.extra_local_memory[core]
                idx == parsec.extra_local_memory_idx[core]
                scratch_word ==
                  IF memory = << >> THEN 0
                  ELSE memory[block_start(idx, parsec.memory_block_size)]
                buffer == NewBuffer(PairBytes, fill)
                run == execute_point(g, 0, p, buffer.words, buffer.bytes, <<buffer>>,
                                     scratch_word, g.scratch_bytes_per_task,
                                     div0_traps, hash_seed)
                result == IF first /\ prepared.result # "ok" THEN prepared.result
                          ELSE run.result
            IN /\ phase' = IF result = "ok" THEN phase ELSE "aborted"
               /\ parsec' = [parsec EXCEPT
                    !.extra_local_memory[core] = memory,
                    !.extra_local_memory_init_flag[core] = IF first THEN 2 ELSE @,
                    !.extra_local_memory_idx[core] =
                       IF result = "ok" THEN (@ + 1) % NB_LOCAL_MEMORY ELSE @,
                    !.done = @ \cup {<<k, p>>},
                    !.call = [scratch_bytes |-> g.scratch_bytes_per_task,
                              scratch_word |-> scratch_word],
                    !.result = result]
  /\ UNCHANGED <<argv, div0_traps, hash_seed, fill, garbage, rolls, status, graph,
                 graphs, output, executed, call, report, backend_vars, debug_vars,
                 relations, verdict, mpi, ompss>>

\* The scratch sizes of the PaRSEC runs.
ParsecScratch == {Unset} \cup Flag({0, WordBytes, 2 * WordBytes})

ParsecSegments ==
  [steps : {<<1>>}, width : Flag(1..ParsecMaxWidth), type : {Unset},
   radix : {Unset}, period : {Unset}, fraction : {Unset}, output : {Unset},
   scratch : ParsecScratch, case : {Unset}]

ParsecFlags ==
  [steps : {<<1>>},
   width : Flag(1..ParsecMaxWidth),
   type : {Unset},
   radix : {Unset},
   period : {Unset},
   fraction : {Unset},
   output : {Unset},
   scratch : ParsecScratch,
   case : {Unset},
   nodes : {Unset},
   and : SeqUpTo(ParsecSegments, ParsecMaxAnd)]

InitParsec ==
  /\ InitCore(ParsecFlags, {0}, {-1, 0}, {0}, {NoRolls})
  /\ BackendIdle
  /\ NoDebug
  /\ NoExtra

NextParsec == AppCtor \/ ParsecCtor \/ ParsecTask

SpecParsec == InitParsec /\ [][NextParsec]_vars

(***************************************************************************)
(* Total Bytes of report_timing: count_bytes_per_task and count_bytes,     *)
(* core.cc:1329-1383.  An integer division by zero is undefined: it traps  *)
(* (div0_traps) or yields the value undef.                                 *)
(***************************************************************************)
divide(a, b, traps, undef) ==
  IF b # 0 THEN [result |-> "ok", value |-> a \div b]
  ELSE IF traps THEN [result |-> "SIGFPE", value |-> 0]
  ELSE [result |-> "ok", value |-> undef]

\* core.cc:1329-1354.  fraction_mem is 0 (no -mem-fraction): for
\* compute_and_mem the quotient of 0.0 and samples is 0, or no number.
count_bytes_per_task(g, timestep, point, traps, undef) ==
  IF g.kernel.type \in {"memory_bound", "memory_daxpy"}
  THEN divide(g.scratch_bytes_per_task * g.kernel.iterations, g.kernel.samples,
              traps, undef)
  ELSE IF g.kernel.type = "compute_and_mem"
  THEN [result |-> "ok", value |-> IF g.kernel.samples # 0 THEN 0 ELSE undef]
  ELSE [result |-> "ok", value |-> 0]

\* core.cc:1370-1383: the sum over the rows and their points.
count_bytes(g, traps, undef) ==
  LET per_task(t, point) == count_bytes_per_task(g, t, point, traps, undef)
      row(t) == [j \in 1..width_at_timestep(g, t) |->
                   per_task(t, offset_at_timestep(g, t) + j - 1)]
      values == [i \in 1..g.timesteps |->
                   SumSeq([j \in 1..Len(row(i - 1)) |-> row(i - 1)[j].value])]
      trapped == \E i \in 1..g.timesteps :
                   \E j \in 1..Len(row(i - 1)) : row(i - 1)[j].result # "ok"
  IN [result |-> IF trapped THEN "SIGFPE" ELSE "ok", value |-> SumSeq(values)]

\* report_timing with its byte count (core.cc:1536, 1551).
ReportBytes ==
  /\ phase = "constructed"
  /\ status = "ok"
  /\ \E undef \in {-1, 0} :
       LET by_graph == [k \in 1..Len(graphs) |->
                          count_bytes(graphs[k], div0_traps, undef)]
           trapped == \E k \in 1..Len(graphs) : by_graph[k].result # "ok"
       IN /\ phase' = IF trapped THEN "aborted" ELSE "reported"
          /\ report' =
               [bytes |-> SumSeq([k \in 1..Len(graphs) |-> by_graph[k].value]),
                bytes_by_graph |-> [k \in 1..Len(graphs) |-> by_graph[k].value],
                result |-> IF trapped THEN "SIGFPE" ELSE "ok"]
               @@ report_timing(graphs, app_nodes(argv), hash_seed)
  /\ UNCHANGED <<argv, div0_traps, hash_seed, fill, garbage, rolls, status, graph,
                 graphs, output, executed, call, backend_vars, debug_vars, extra_vars>>

\* The kernel flags of the runs.
BytesKernels == {Unset} \cup Flag({"empty", "memory_bound", "memory_daxpy"})

BytesSegments ==
  [steps : {<<2>>}, width : {<<2>>}, type : {Unset},
   radix : {Unset}, period : {Unset}, fraction : {Unset}, output : {Unset},
   scratch : Flag({0, 2 * WordBytes}), case : {Unset},
   kernel : Flag({"memory_bound"}), iter : {<<2>>}, sample : {Unset, <<1>>}]

BytesFlags ==
  [steps : Flag(1..BytesMaxSteps),
   width : Flag(1..BytesMaxWidth),
   type : Flag({"trivial", "dom"}),
   radix : {Unset},
   period : {Unset},
   fraction : {Unset},
   output : {Unset},
   scratch : {Unset} \cup Flag({0, WordBytes, 5 * WordBytes}),
   case : {Unset},
   kernel : BytesKernels,
   iter : {Unset} \cup Flag(0..BytesMaxIter),
   sample : {Unset} \cup Flag(0..BytesMaxSample),
   nodes : {Unset},
   and : SeqUpTo(BytesSegments, 1)]

InitBytes ==
  /\ InitCore(BytesFlags, {0}, {-1}, {0}, {NoRolls})
  /\ BackendIdle
  /\ NoDebug
  /\ NoExtra

NextBytes == AppCtor \/ ReportBytes

SpecBytes == InitBytes /\ [][NextBytes]_vars

(***************************************************************************)
(* Properties of the graph model and of the validation.                    *)
(***************************************************************************)
Constructed == phase # "start"

\* The flags are inside their ranges.
Parsed == Constructed /\ status # "flag_error"

\* The flags are inside their ranges and the period rules of App::check
\* (period required / unsupported, spread bound) are satisfied.
ValidConfiguration == Constructed /\ status \notin ConfigErrors

Points(g) == 0..(g.max_width - 1)
DSets(g) == 0..(max_dependence_sets(g) - 1)
Timesteps(g) == 0..(g.timesteps - 1)

DepPoints(g, dset, p) == Materialize(dependencies(g, dset, p, hash_seed))
RDepPoints(g, dset, p) == Materialize(reverse_dependencies(g, dset, p, hash_seed))

\* C1: dependency symmetry.  In every valid configuration, for every
\* dependence set dset in [0, max_dependence_sets) and all points p, q in
\* [0, max_width): q is a dependency of p iff p is a reverse dependency of q.
C1_DependencySymmetry ==
  ValidConfiguration =>
    \A dset \in DSets(graph) : \A p, q \in Points(graph) :
      (q \in SeqToSet(DepPoints(graph, dset, p)))
        <=> (p \in SeqToSet(RDepPoints(graph, dset, q)))

\* A validated graph whose dependence relation is not symmetric in p and q:
\* q is a dependency of p, mirrored by the reverse list of q, while p is not
\* a dependency of q.
C1_Witness ==
  /\ status = "ok"
  /\ \E dset \in DSets(graph) : \E p, q \in Points(graph) :
       /\ p # q
       /\ q \in SeqToSet(DepPoints(graph, dset, p))
       /\ p \in SeqToSet(RDepPoints(graph, dset, q))
       /\ p \notin SeqToSet(DepPoints(graph, dset, q))

\* C2: in every valid configuration, for every dependence set and point,
\* no point occurs twice in the materialized dependency list.
C2_NoDuplicateDependencies ==
  ValidConfiguration =>
    \A dset \in DSets(graph) : \A p \in Points(graph) :
      NoDuplicates(DepPoints(graph, dset, p))

\* C3: for every parsed graph and timestep t in [0, timesteps) the row
\* [offset(t), offset(t) + width(t)) lies inside [0, max_width); for negative
\* t offset and width are 0.
C3_RowInsideWidth ==
  Parsed =>
    /\ \A t \in Timesteps(graph) :
         /\ offset_at_timestep(graph, t) >= 0
         /\ width_at_timestep(graph, t) >= 0
         /\ offset_at_timestep(graph, t) + width_at_timestep(graph, t) <= graph.max_width
    /\ \A t \in {-2, -1} :
         offset_at_timestep(graph, t) = 0 /\ width_at_timestep(graph, t) = 0

\* A dom graph with a row that starts after point 0 and ends at max_width.
C3_Witness ==
  /\ Parsed
  /\ graph.dependence = "dom"
  /\ \E t \in Timesteps(graph) :
       /\ offset_at_timestep(graph, t) > 0
       /\ width_at_timestep(graph, t) > 0
       /\ offset_at_timestep(graph, t) + width_at_timestep(graph, t) = graph.max_width

\* C4: in every valid configuration and for every timestep t in
\* [0, timesteps), dependence_set_at_timestep(t) is well defined and lies in
\* [0, max_dependence_sets).
C4_DsetInRange ==
  ValidConfiguration =>
    \A t \in Timesteps(graph) :
      /\ ~dset_divides_by_zero(graph)
      /\ dependence_set_at_timestep(graph, t) >= 0
      /\ dependence_set_at_timestep(graph, t) < max_dependence_sets(graph)

\* C8: a graph passes the validation only if its period is non-zero exactly
\* when its pattern is spread, random_nearest or random_spread; a
\* random_spread graph with a non-zero period is not rejected for its period,
\* and one with period 0 is rejected with the period-required error.
C8_PeriodRule ==
  Parsed =>
    /\ status = "ok" =>
         ((graph.period # 0)
            <=> graph.dependence \in {"spread", "random_nearest", "random_spread"})
    /\ (graph.dependence = "random_spread" /\ graph.period # 0) =>
         status \notin {"error_period_required", "error_period_unsupported"}
    /\ (graph.dependence = "random_spread" /\ graph.period = 0) =>
         status = "error_period_required"

SpreadDependenciesDistinct(g) ==
  \A dset \in 0..(g.period - 1) : \A p \in Points(g) :
    /\ Len(dependencies(g, dset, p, hash_seed)) = g.radix
    /\ NoDuplicates(DepPoints(g, dset, p))

CeilDiv(a, b) == (a + b - 1) \div b

C10_NearestRadixZero ==
  (Constructed /\ argv.radix = <<0>> /\ argv.type = <<"nearest">>
     /\ argv.period \in {Unset, <<0>>}) =>
    /\ status = "ok"
    /\ \A p \in Points(graph) :
         /\ dependencies(graph, 0, p, hash_seed) = << >>
         /\ reverse_dependencies(graph, 0, p, hash_seed) = << >>

(***************************************************************************)
(* Properties of execute_point.  call is the last call made.               *)
(***************************************************************************)
CallRequired == required_dependencies(graph, call.timestep, call.point, hash_seed)

CallIsTask == call.made /\ IsTask(graph, call.timestep, call.point)

\* Every input of the last call is the output buffer of the dependency it
\* stands for, and that dependency has been executed.
CallInputsProduced ==
  /\ Len(call.inputs) = Len(CallRequired)
  /\ \A k \in 1..Len(CallRequired) :
       /\ <<call.timestep - 1, CallRequired[k]>> \in executed
       /\ call.inputs[k] = output[<<call.timestep - 1, CallRequired[k]>>]

\* C5: round trip.  A task of row t+1 whose inputs are, in the order of its
\* dependency list, the buffers produced by execute_point for its
\* dependencies in row t passes the input validation.
C5_RoundTrip ==
  (CallIsTask /\ call.timestep >= 1 /\ CallInputsProduced) =>
    call.result \notin InputFailures

\* A task with at least two inputs, produced by two different tasks of the
\* previous row, has passed.
C5_Witness ==
  /\ CallIsTask /\ call.timestep >= 1 /\ CallInputsProduced
  /\ call.result = "ok"
  /\ Len(call.inputs) >= 2
  /\ call.inputs[1] # call.inputs[2]

\* C6: after a successful execute_point(t, p) with output capacity n >= 16
\* each of the floor(n / 16) records of the output buffer is (t, p).
C6_OutputRecords ==
  (call.made /\ call.result = "ok" /\ call.output_bytes >= PairBytes) =>
    \A i \in 0..(call.output_bytes \div PairBytes - 1) :
      /\ RecordFirst(output[<<call.timestep, call.point>>].words, i) = call.timestep
      /\ RecordSecond(output[<<call.timestep, call.point>>].words, i) = call.point

\* A successful call with inputs whose capacity holds two records and a
\* trailing word, on a buffer that held something else in both records.
C6_Witness ==
  /\ call.made /\ call.result = "ok"
  /\ call.output_bytes = 40
  /\ call.inputs # << >>
  /\ \A i \in 0..1 :
       \/ RecordFirst(call.before, i) # call.timestep
       \/ RecordSecond(call.before, i) # call.point

\* Some required dependency of the last call has no input buffer, or one
\* shorter than 16 bytes, or one with a record different from (t-1, d).
CallHasBadInput ==
  \E k \in 1..Len(CallRequired) :
    \/ k > Len(call.inputs)
    \/ /\ k <= Len(call.inputs)
       /\ \/ call.inputs[k].bytes < PairBytes
          \/ \E i \in 0..(call.inputs[k].bytes \div PairBytes - 1) :
               \/ RecordFirst(call.inputs[k].words, i) # call.timestep - 1
               \/ RecordSecond(call.inputs[k].words, i) # CallRequired[k]

\* C7: execute_point fails fatally whenever a required dependency has no
\* input buffer, an input buffer shorter than 16 bytes or an input record
\* different from (t-1, d).
C7_BadInputIsFatal ==
  (call.made /\ CallHasBadInput) => (call.result # "ok" /\ phase = "aborted")

\* The call was aborted by the value check because of a record after the
\* first one: the first record of every input is the expected one.
C7_Witness ==
  /\ CallIsTask
  /\ call.result = "assert_input_value"
  /\ Len(call.inputs) = Len(CallRequired)
  /\ \A k \in 1..Len(call.inputs) :
       /\ call.inputs[k].bytes = 40
       /\ RecordFirst(call.inputs[k].words, 0) = call.timestep - 1
       /\ RecordSecond(call.inputs[k].words, 0) = CallRequired[k]

(***************************************************************************)
(* Row shapes and the spread pattern on wider graphs.                      *)
(***************************************************************************)
\* C11 as stated: a tree graph has offset 0 and width max_width at every
\* timestep.
C11_TreeFullWidth ==
  (Parsed /\ graph.dependence = "tree") =>
    \A t \in Timesteps(graph) :
      /\ offset_at_timestep(graph, t) = 0
      /\ width_at_timestep(graph, t) = graph.max_width

\* C11, amended: a tree graph has offset 0 at every timestep; its first row
\* has one point and each row is twice as wide as the row before it, capped
\* at max_width.
C11_TreeDoubles ==
  (Parsed /\ graph.dependence = "tree") =>
    /\ \A t \in Timesteps(graph) : offset_at_timestep(graph, t) = 0
    /\ width_at_timestep(graph, 0) = 1
    /\ \A t \in Timesteps(graph) :
         t >= 1 => width_at_timestep(graph, t)
                     = Min(graph.max_width, 2 * width_at_timestep(graph, t - 1))

\* A validated tree whose rows are 1, 2, 4 and then max_width wide, with
\* max_width no power of two.
C11_Witness ==
  /\ status = "ok"
  /\ graph.dependence = "tree"
  /\ graph.timesteps = 4
  /\ graph.max_width \in {5, 6}
  /\ width_at_timestep(graph, 2) = 4
  /\ width_at_timestep(graph, 3) = graph.max_width

\* C12 as stated: dom with timesteps = 4 and max_width = 6 has offset(3) = 1
\* and width(3) = 3.
C12_DomExample ==
  (Parsed /\ graph.dependence = "dom" /\ graph.timesteps = 4 /\ graph.max_width = 6) =>
    /\ offset_at_timestep(graph, 3) = 1
    /\ width_at_timestep(graph, 3) = 3

\* C12, amended: dom with timesteps = 4 and max_width = 6 has offset(3) = 5
\* and width(3) = 1.
C12_DomLastRow ==
  (Parsed /\ graph.dependence = "dom" /\ graph.timesteps = 4 /\ graph.max_width = 6) =>
    /\ offset_at_timestep(graph, 3) = 5
    /\ width_at_timestep(graph, 3) = 1

\* The graph of the example, validated.
C12_Witness ==
  /\ status = "ok"
  /\ argv.type = <<"dom">> /\ argv.steps = <<4>> /\ argv.width = <<6>>
  /\ graph.dependence = "dom" /\ graph.timesteps = 4 /\ graph.max_width = 6

ShapeDSets == 0..(ShapeMaxWidth - 1)

\* The points of an interval list of singletons, in order.
Singletons(intervals) == [k \in 1..Len(intervals) |-> intervals[k][1]]

IsSingletonList(intervals) ==
  \A k \in 1..Len(intervals) : intervals[k][1] = intervals[k][2]

\* C13 as stated: for spread with R >= 1, dependencies(dset, p) is the list,
\* for i = 0 .. R-1, of the singletons
\* (p + i * floor(W / R) + (dset if i > 0 else 0)) mod W.
C13_SpreadFloorFirst ==
  (Parsed /\ graph.dependence = "spread" /\ graph.radix >= 1) =>
    \A dset \in ShapeDSets : \A p \in Points(graph) :
      LET deps == dependencies(graph, dset, p, hash_seed)
      IN /\ Len(deps) = graph.radix
         /\ IsSingletonList(deps)
         /\ \A i \in 0..(graph.radix - 1) :
              Singletons(deps)[i + 1]
                = (p + i * (graph.max_width \div graph.radix)
                     + (IF i > 0 THEN dset ELSE 0)) % graph.max_width

\* C13, amended: the i-th singleton is
\* (p + floor(i * W / R) + (dset if i > 0 else 0)) mod W.
C13_SpreadFloorLast ==
  (Parsed /\ graph.dependence = "spread" /\ graph.radix >= 1) =>
    \A dset \in ShapeDSets : \A p \in Points(graph) :
      LET deps == dependencies(graph, dset, p, hash_seed)
      IN /\ Len(deps) = graph.radix
         /\ IsSingletonList(deps)
         /\ \A i \in 0..(graph.radix - 1) :
              Singletons(deps)[i + 1]
                = (p + (i * graph.max_width) \div graph.radix
                     + (IF i > 0 THEN dset ELSE 0)) % graph.max_width

\* A validated spread graph with radix below max_width on which the two
\* readings of the offset differ: floor(2 * 5 / 3) = 3, 2 * floor(5 / 3) = 2.
C13_Witness ==
  /\ status = "ok"
  /\ graph.dependence = "spread"
  /\ graph.max_width = 5 /\ graph.radix = 3
  /\ dependencies(graph, 0, 0, hash_seed) = << <<0, 0>>, <<1, 1>>, <<3, 3>> >>

(***************************************************************************)
(* The -output flag and the output_bytes_size tables.                      *)
(***************************************************************************)
Cells(g) == (0..(g.timesteps - 1)) \X (0..(g.max_width - 1))

RowCells(g) == {tp \in Cells(g) : tp[2] \in Row(g, tp[1])}

\* C14: when output_bytes_per_task = 16 or output_case = 0, after
\* configuration every cell output_bytes_size[t][p], for t in [0, timesteps)
\* and p in [0, max_width), inside row t or not, equals
\* output_bytes_per_task.
C14_EveryCellIsOutputBytes ==
  (Parsed /\ (graph.output_bytes_per_task = PairBytes \/ graph.output_case = 0)) =>
    /\ graph.output_bytes_size.allocated
    /\ \A tp \in Cells(graph) :
         graph.output_bytes_size.cells[tp] = graph.output_bytes_per_task

\* C15: for every accepted configuration with -output N >= 16, whatever the
\* output_case, every size output_bytes_size[t][p] with p inside row t is at
\* least 16 and a multiple of 16.
C15_SizesMultipleOf16 ==
  (status = "ok" /\ (argv.output = Unset \/ argv.output[1] >= PairBytes)) =>
    \A tp \in RowCells(graph) :
      /\ graph.output_bytes_size.cells[tp] >= PairBytes
      /\ graph.output_bytes_size.cells[tp] % PairBytes = 0

\* C16: after the construction of App from k >= 1 graphs separated by -and,
\* every one of the k graphs of App::graphs has an allocated table.
C16_EveryGraphHasTable ==
  Parsed =>
    /\ Len(graphs) = Len(argv.and) + 1
    /\ \A k \in 1..Len(graphs) : graphs[k].output_bytes_size.allocated

\* C20: the parser rejects every -output N with N < 16, negative N
\* included, and an accepted output_bytes_per_task is at least 16.
C20_SmallOutputRejected ==
  Constructed =>
    /\ (argv.output # Unset /\ argv.output[1] < PairBytes) => status = "flag_error"
    /\ Parsed => graph.output_bytes_per_task >= PairBytes

(***************************************************************************)
(* The totals of report_timing.                                            *)
(***************************************************************************)
RECURSIVE SumFn(_, _)
SumFn(f, S) ==
  IF S = {} THEN 0
  ELSE LET x == CHOOSE x \in S : TRUE IN f[x] + SumFn(f, S \ {x})

\* The tasks of a graph.
Tasks(g) == {tp \in (0..(g.timesteps - 1)) \X Points(g) : tp[2] \in Row(g, tp[1])}

\* The number of inputs execute_point(t, p) consumes.
InputsConsumed(g) ==
  [tp \in Tasks(g) |-> Len(required_dependencies(g, tp[1], tp[2], hash_seed))]

GraphIndices == 1..Len(graphs)

\* C17: Total Tasks is the sum over the graphs and timesteps of width(t);
\* Total Dependencies is the sum over the graphs and their tasks (t, p) of
\* the number of points of dependencies(dset(t), p) that lie in the previous
\* row, which is the number of inputs execute_point(t, p) consumes; the
\* tasks of timestep 0 contribute nothing.
C17_ReportTotals ==
  report.made =>
    /\ report.total_num_tasks
         = SumFn([k \in GraphIndices |-> Cardinality(Tasks(graphs[k]))], GraphIndices)
    /\ report.total_num_deps
         = SumFn([k \in GraphIndices |->
                    SumFn(InputsConsumed(graphs[k]), Tasks(graphs[k]))], GraphIndices)
    /\ \A k \in GraphIndices : \A p \in Row(graphs[k], 0) :
         report_point(graphs[k], 0, p, report.nodes, hash_seed).num_deps = 0

\* A report on two graphs in which some task after the first row has a
\* dependency outside the previous row, and some dependencies are counted.
C17_Witness ==
  /\ report.made
  /\ Len(graphs) = 2
  /\ report.total_num_deps > 0
  /\ \E tp \in Tasks(graph) :
       /\ tp[1] >= 1
       /\ InputsConsumed(graph)[tp] >= 1
       /\ Len(DepPoints(graph, dependence_set_at_timestep(graph, tp[1]), tp[2]))
            > InputsConsumed(graph)[tp]

\* C18: with nodes > 0 every point p of [0, max_width) lies inside the range
\* [node * W / nodes, (node + 1) * W / nodes) of the node floor(p * nodes / W)
\* it is mapped to, and so a no_comm graph reports no non-local dependency.
C18_PointInsideNodeRange ==
  (report.made /\ report.nodes > 0) =>
    \A k \in GraphIndices :
      /\ \A p \in Points(graphs[k]) :
           /\ node_first_of(graphs[k], p, report.nodes) <= p
           /\ p <= node_last_of(graphs[k], p, report.nodes)
      /\ graphs[k].dependence = "no_comm" => report.by_graph[k].nonlocal_deps = 0

\* C19: with nodes > 0, for every graph the local and the non-local
\* dependencies add up to the dependencies, and so do the totals, also when
\* there are more nodes than points.
C19_LocalNonlocalPartition ==
  (report.made /\ report.nodes > 0) =>
    /\ \A k \in GraphIndices :
         report.by_graph[k].local_deps + report.by_graph[k].nonlocal_deps
           = report.by_graph[k].num_deps
    /\ report.total_local_deps + report.total_nonlocal_deps = report.total_num_deps

\* A report for more nodes than the last graph has points, with local and
\* non-local dependencies in that graph.
C19_Witness ==
  /\ report.made
  /\ report.nodes > graph.max_width
  /\ report.by_graph[Len(graphs)].local_deps > 0
  /\ report.by_graph[Len(graphs)].nonlocal_deps > 0

(***************************************************************************)
(* Command lines of several graphs.                                        *)
(***************************************************************************)
\* The flags of graph number k (from 1) of the command line.
SegmentOf(k) == IF k <= Len(argv.and) THEN argv.and[k] ELSE argv

\* What a flag leaves in its field: its value, or the value the field has
\* when the flag is absent.
KeepsDefault(flag, field, default) == flag = Unset => field = default

ScratchPrepared ==
  \/ phase \in {"prepared", "running"}
  \/ phase = "aborted" /\ call.made

\* The call of a state of the scratch backend.
ScratchCall == call.made /\ "kind" \in DOMAIN call

ScratchFailures == {"assert_scratch_bytes", "assert_scratch_magic"}

\* C22: after prepare_scratch(ptr, n) with n a positive multiple of 8 every
\* 8-byte word of the buffer is 0x5C4A7C8B, so execute_point's scratch check
\* passes on every aligned slice of it; execute_point called with
\* scratch_bytes > 0 on a buffer whose first word differs from the magic
\* value, or with scratch_bytes # scratch_bytes_per_task, fails fatally.
C22_ScratchMagic ==
  /\ (ScratchPrepared /\ scratch.bytes > 0 /\ scratch.bytes % WordBytes = 0) =>
       /\ Len(scratch.words) = scratch.bytes \div WordBytes
       /\ \A k \in 1..Len(scratch.words) : scratch.words[k] = 1548385419
  /\ (ScratchCall /\ call.kind = "faithful") =>
       /\ call.result \notin ScratchFailures
       /\ dependencies_defined(graph) => call.result = "ok"
  /\ (ScratchCall /\ (call.scratch_bytes # graph.scratch_bytes_per_task
                         \/ (call.scratch_bytes > 0 /\ call.scratch_word # 1548385419))) =>
       /\ call.result # "ok"
       /\ dependencies_defined(graph) => call.result \in ScratchFailures
       /\ phase = "aborted"

\* A task that is not the first of its row has passed the scratch check on
\* its slice of a prepared buffer of 16 bytes per task.
C22_Witness ==
  /\ ScratchCall
  /\ call.kind = "faithful"
  /\ call.point > 0
  /\ call.timestep > 0
  /\ graph.scratch_bytes_per_task = 16
  /\ call.scratch_word = MAGIC_VALUE
  /\ call.result = "ok"

(***************************************************************************)
(* The mask of the debug build.                                            *)
(***************************************************************************)
\* C23: in the debug build, for every graph_index permitted by App::check,
\* after any execute_point calls the bits that are set in the mask are
\* exactly the indices of the graphs that have been executed, and
\* report_timing with validation passes if and only if every configured
\* graph has been executed at least once.
C23_MaskIsExecutedGraphs ==
  /\ has_executed_graph = ran
  /\ phase = "reported" => \A k \in 1..Len(graphs) : graphs[k].graph_index \in ran
  /\ phase = "report_aborted" => \E k \in 1..Len(graphs) : graphs[k].graph_index \notin ran

(***************************************************************************)
(* The degenerate periodic stencil.                                        *)
(***************************************************************************)
\* C24: a stencil_1d_periodic graph with max_width = 1 is tolerated: it
\* passes App::check, its dependency lists have three entries, and its
\* points can be executed on the outputs of their dependencies.
C24_PeriodicWidthOneTolerated ==
  (ValidConfiguration /\ graph.dependence = "stencil_1d_periodic"
     /\ graph.max_width = 1) =>
    /\ Len(dependencies(graph, 0, 0, hash_seed)) = 3
    /\ status = "ok"
    /\ (CallIsTask /\ call.inputs = FaithfulInputs(graph, output, call.timestep,
                                                    call.point, hash_seed)
          /\ call.output_bytes >= PairBytes) => call.result = "ok"

(***************************************************************************)
(* Failed calls of execute_point.                                          *)
(***************************************************************************)
\* C25: all of execute_point's checks are preconditions: whenever a call
\* fails any of them (timestep or point out of range, bad input record,
\* output capacity below 16, scratch size or scratch magic mismatch), the
\* output buffer is exactly as it was before the call.
C25_FailureLeavesOutput ==
  (call.made /\ call.result # "ok") =>
    output[<<call.timestep, call.point>>].words = call.before

(***************************************************************************)
(* The validation as a decision procedure.                                 *)
(***************************************************************************)
\* The points of the lists of a point.
MirrorDeps(p) == Materialize(relations.deps[p])
MirrorRDeps(p) == Materialize(relations.rdeps[p])

MpiRanks == 0..(mpi.n_ranks - 1)

\* Every rank has posted the requests of its timestep.
AllPosted == phase = "mpi" /\ \A rank \in MpiRanks : mpi.pc[rank] = "wait"

\* The timestep whose requests are posted.
PostedTimestep == mpi.timestep[0]

\* The edges (t-1, src) -> (t, dst) between two ranks.
CrossRankEdges(t) ==
  {<<src, dst>> \in (0..(graph.max_width - 1)) \X Row(graph, t) :
     /\ src \in SeqToSet(required_dependencies(graph, t, dst, hash_seed))
     /\ rank_by_point(graph, src, mpi.n_ranks) # rank_by_point(graph, dst, mpi.n_ranks)}

\* The key of the message of an edge.
EdgeKey(src, dst) ==
  <<rank_by_point(graph, src, mpi.n_ranks), rank_by_point(graph, dst, mpi.n_ranks),
    tag_bits_by_point(graph, src, mpi.n_ranks) * 256
      + tag_bits_by_point(graph, dst, mpi.n_ranks)>>

\* The receives and the sends of every timestep correspond one to one by
\* (source rank, destination rank, tag), one pair for every edge between
\* two ranks, and no two messages share a key.
MessagesCorrespond ==
  AllPosted =>
    /\ requests_match(mpi.recvs, mpi.sends)
    /\ {message_key(q) : q \in mpi.recvs}
         = {EdgeKey(e[1], e[2]) : e \in CrossRankEdges(PostedTimestep)}
    /\ Cardinality(mpi.recvs) = Cardinality(CrossRankEdges(PostedTimestep))
    /\ Cardinality(mpi.sends) = Cardinality(CrossRankEdges(PostedTimestep))

\* C27: in the bulk-synchronous MPI backend, in every timestep and for
\* every number of ranks, the receives and the sends posted by all ranks
\* correspond one to one by (source rank, destination rank, tag), so
\* MPI_Waitall completes on every rank, and each consumer's i-th input
\* carries the output of its i-th dependency in the previous row: no
\* execute_point call fails.
C27_MpiMessagesDelivered ==
  /\ MessagesCorrespond
  /\ phase \in {"mpi", "aborted"} => mpi.result = "ok"

(***************************************************************************)
(* The ring of tiles of the OmpSs backend.                                 *)
(***************************************************************************)
\* The graph has a dependency between two different points.
CrossPointEdge ==
  \E task \in ompss_tasks(graph) :
    \E dep \in SeqToSet(required_dependencies(graph, task[1], task[2], hash_seed)) :
      dep # task[2]

\* C28: in the OmpSs backend, for every ring depth nb_fields >= 1 that
\* -field accepts and every schedule that respects the declared in/inout
\* dependences, the input tiles of a task still hold the payload of its
\* producers when it executes: the input validation of execute_point never
\* fails.
C28_RingKeepsInputs ==
  (ompss.started /\ graph.nb_fields >= 1) => ompss.result \notin InputFailures

(***************************************************************************)
(* The scratch blocks of the PaRSEC backend.                               *)
(***************************************************************************)
\* C29: in the PaRSEC backend, for one or several graphs with different
\* scratch_bytes_per_task and any order of the tasks on a core, every
\* execute_point call made with scratch_bytes_per_task > 0 receives a
\* scratch block whose first 8 bytes are the magic constant.
C29_ScratchBlockHasMagic ==
  (parsec.started /\ parsec.call.scratch_bytes > 0)
    => parsec.call.scratch_word = MAGIC_VALUE

(***************************************************************************)
(* Total Bytes.                                                            *)
(***************************************************************************)
MemoryKernels == {"memory_bound", "memory_daxpy"}

\* C30: for every accepted configuration whose kernel is memory_bound or
\* memory_daxpy (any -sample >= 0, -iter >= 0, -scratch >= 0), the bytes of
\* a task are the well-defined value scratch_bytes_per_task * iterations /
\* samples, and Total Bytes is the sum of that value over all tasks.
C30_BytesPerTask ==
  ("bytes" \in DOMAIN report) =>
    /\ \A k \in GraphIndices :
         graphs[k].kernel.type \in MemoryKernels =>
           /\ graphs[k].kernel.samples # 0
           /\ report.result = "ok"
           /\ report.bytes_by_graph[k]
                = Cardinality(Tasks(graphs[k]))
                    * ((graphs[k].scratch_bytes_per_task * graphs[k].kernel.iterations)
                         \div graphs[k].kernel.samples)
    /\ (\A k \in GraphIndices : graphs[k].kernel.type \in MemoryKernels \cup {"empty"})
         => report.bytes = SumSeq(report.bytes_by_graph)

====
